---- MODULE Spec2Model ----
(***************************************************************************)
(* A model of the blender-xray codecs:                                     *)
(*   - io_scene_xray/skls_browser.py   the .skls motion container index    *)
(*   - io_scene_xray/fmt_object_imp.py the .object decoder                 *)
(*   - io_scene_xray/fmt_ogf_exp.py    the .ogf encoder                    *)
(* Each part has its own specification (SpecSkls, ...) over the shared     *)
(* variables; the variables of the other parts stay at their idle values.  *)
(***************************************************************************)
EXTENDS Integers, Sequences, FiniteSets, TLC

VARIABLES
    \* ---- skls_browser.py -------------------------------------------------
    skls_open,      \* OpBrowseSklsFile.skls_file is not None
    pr_data,        \* skls_file.pr: the whole container, a sequence of bytes
    pr_offs,        \* skls_file.pr: the cursor, a 0-based byte offset
    animations,     \* skls_file.animations: name -> <<file_offset, frames_count>>
    file_clips,     \* the clips written in the .skls file at the operator's filepath
    prev_name,      \* sk.animations_prev_name
    actions,        \* names of bpy.data.actions
    anim_data,      \* ob.animation_data: NoAnimData or AnimData(name or None)
    motions,        \* names in ob.xray.motions_collection
    decoded,        \* history: the last call of import_motion on the container
    last_call,      \* history: the last run of the operator or of the handler, [op, name],
                    \* name being sk.animations[sk.animations_index].name as the handler read it
    \* ---- fmt_ogf_exp.py ---------------------------------------------------
    ex_pc,          \* _export_child: "idle", "faces" (in the loop of line 85), "done", "failed"
    ex_weights,     \* bm.verts[i][bml_vw]: per source vertex, <<bone, weight>> in keys() order
    ex_corners,     \* history: per face read so far, <<source vertex, loop data>> of its corners
    vertices,       \* the deduplicated vertices, in output order
    indices,        \* per face, its three output vertex indices
    vmap,           \* key -> output vertex index
    cw,             \* the chunk writer: <<chunk id, payload>> in put order, ids by name
    mt_dic,         \* a weight mapping of more than two influences (vw of line 119)
    mt_res,         \* what max_two returned for it (line 121), <<>> before the call
    \* ---- fmt_object_imp.py ------------------------------------------------
    status,         \* import_file: "idle", "running", "done", "failed"
    level,          \* the reader being iterated: "root", "main", "meshes", "mesh",
                    \* "bones", "bone"; "main_begin", "mesh_begin", "bone_begin",
                    \* "bone_def", "bone_pose" before the cr.next of that record
    error,          \* the exception that ended the import: [kind, what, value]
    warnings,       \* what warn_imknown_chunk printed: <<cid, location>> in order
    chunks_left,    \* chunks of the file not yet delivered to a dispatch loop
    last_chunk,     \* history: the last chunk a reader delivered, [n, level, cid, data],
                    \* data being what the payload holds (VMAPS2: the entries)
    cx_bpy,         \* cx.bpy is not None
    bpy_obj,        \* _import_main: bpy_obj, [exists, fields, matrix]
    meshes,         \* _import_main: meshes, the finished bo_mesh records
    mesh,           \* _import_mesh: the mesh under construction
    arm,            \* _import_main: bpy_armature, bpy_arm_obj, the bones, bonemat
    materials,      \* bpy.data.materials: name -> has a texture slot
    created,        \* history: datablocks created, [objects, meshes, armatures, bones]
    null_skips      \* history: the mesh chunks that passed over a None face slot

sklsVars == <<skls_open, pr_data, pr_offs, animations, file_clips, prev_name,
              actions, anim_data, motions, decoded, last_call>>

ogfVars == <<ex_pc, ex_weights, ex_corners, vertices, indices, vmap, cw, mt_dic, mt_res>>

objVars == <<status, level, error, warnings, chunks_left, last_chunk, cx_bpy, bpy_obj,
             meshes, mesh, arm, materials, created, null_skips>>

vars == <<sklsVars, ogfVars, objVars>>

\* the decoder before import_file is called
ObjIdle ==
    /\ status = "idle"
    /\ level = "root"
    /\ error = [kind |-> "", what |-> "", value |-> 0]
    /\ warnings = <<>>
    /\ chunks_left = 0
    /\ last_chunk = [n |-> 0, level |-> "", cid |-> "", data |-> <<>>]
    /\ cx_bpy = TRUE
    /\ bpy_obj = [exists |-> FALSE, fields |-> <<>>, matrix |-> <<>>]
    /\ meshes = <<>>
    /\ mesh = <<>>
    /\ arm = [exists |-> FALSE, bound |-> FALSE, bones |-> <<>>, bonemat |-> <<>>,
              groups |-> <<>>, cur |-> [name |-> "", parent |-> "", vmap |-> ""],
              reports |-> 0, tails |-> FALSE]
    /\ materials = <<>>
    /\ created = [objects |-> 0, meshes |-> 0, armatures |-> 0, bones |-> 0]
    /\ null_skips = {}

Min(S) == CHOOSE x \in S : \A y \in S : x <= y

(***************************************************************************)
(* Bounds and input domains of the container model.                        *)
(***************************************************************************)
MaxClips == 2

\* clip names, as byte strings without the terminator
ClipNames == {<<1>>, <<2>>, <<1, 2>>}

\* (start_frame, end_frame, rest of the motion body) of a clip
ClipBodies == { [start |-> 1, end |-> 4, rest |-> <<7>>],
                [start |-> 3, end |-> 1, rest |-> <<>>] }

ClipSet == { [name |-> n, start |-> b.start, end |-> b.end, rest |-> b.rest] :
             n \in ClipNames, b \in ClipBodies }

RECURSIVE SeqsUpTo(_, _)
SeqsUpTo(S, n) ==
    IF n = 0 THEN {<<>>}
    ELSE LET shorter == SeqsUpTo(S, n - 1)
         IN  shorter \cup {Append(s, x) : s \in {t \in shorter : Len(t) = n - 1}, x \in S}

(***************************************************************************)
(* The byte layout of a container (xray_io.PackedWriter, xray_motions):    *)
(* a u32 count, then per clip its name, null-terminated, the frame range   *)
(* as two u32, and the rest of the motion body. The body's real layout is  *)
(* outside src/; here the rest is one length byte and that many bytes.     *)
(***************************************************************************)
putf_I(v) == <<v % 256, (v \div 256) % 256, (v \div 65536) % 256, (v \div 16777216) % 256>>

puts(s) == s \o <<0>>

export_motion(c) ==
    puts(c.name) \o putf_I(c.start) \o putf_I(c.end) \o <<Len(c.rest)>> \o c.rest

RECURSIVE export_motions_body(_)
export_motions_body(cs) ==
    IF cs = <<>> THEN <<>> ELSE export_motion(Head(cs)) \o export_motions_body(Tail(cs))

export_motions(cs) == putf_I(Len(cs)) \o export_motions_body(cs)

(***************************************************************************)
(* xray_io.PackedReader over (data, offs); a read that runs past the end   *)
(* of the data fails.                                                      *)
(***************************************************************************)
ReadFail == [ok |-> FALSE, val |-> <<>>, offs |-> 0]

getf_I(data, offs) ==
    IF offs + 4 > Len(data) THEN ReadFail
    ELSE [ok   |-> TRUE,
          val  |-> data[offs + 1] + 256 * data[offs + 2] + 65536 * data[offs + 3]
                   + 16777216 * data[offs + 4],
          offs |-> offs + 4]

getf_II(data, offs) ==
    LET a == getf_I(data, offs)
        b == getf_I(data, offs + 4)
    IN  IF a.ok /\ b.ok THEN [ok |-> TRUE, val |-> <<a.val, b.val>>, offs |-> offs + 8]
        ELSE ReadFail

gets(data, offs) ==
    LET zeros == {i \in offs .. (Len(data) - 1) : data[i + 1] = 0}
    IN  IF zeros = {} THEN ReadFail
        ELSE LET zpos == Min(zeros)
             IN  [ok |-> TRUE, val |-> SubSeq(data, offs + 1, zpos), offs |-> zpos + 1]

getv(data, offs) == SubSeq(data, offs + 1, Len(data))

\* xray_motions._skip_motion_rest(data, offs): the number of bytes from offs (the
\* frame range) to the end of the motion that starts there.
_skip_motion_rest(data, offs) ==
    IF offs + 9 > Len(data) THEN [ok |-> FALSE, val |-> 0]
    ELSE LET n == data[offs + 9]
         IN  IF offs + 9 + n > Len(data) THEN [ok |-> FALSE, val |-> 0]
             ELSE [ok |-> TRUE, val |-> 9 + n]

\* xray_motions.import_motion(pr, ...): decodes the motion at the cursor and leaves
\* the cursor behind it.
MotionFail == [ok |-> FALSE, name |-> <<>>, start |-> 0, end |-> 0, rest |-> <<>>,
               head |-> 0, offs |-> 0]

import_motion(data, offs) ==
    LET n == gets(data, offs)
    IN  IF ~n.ok THEN MotionFail
        ELSE LET r == getf_II(data, n.offs)
                 s == _skip_motion_rest(getv(data, n.offs), 0)
             IN  IF ~r.ok \/ ~s.ok THEN MotionFail
                 ELSE [ok |-> TRUE, name |-> n.val, start |-> r.val[1], end |-> r.val[2],
                       rest |-> SubSeq(data, n.offs + 10, n.offs + s.val),
                       head |-> r.offs, offs |-> n.offs + s.val]

(***************************************************************************)
(* OpBrowseSklsFile.SklsFile                                               *)
(***************************************************************************)
\* self.animations[name] = (offset, int(frames_range[1] - frames_range[0]))
index_entry_after_name(offset, offset2, frames_range) ==
    <<offset2, frames_range[2] - frames_range[1]>>

index_entry(offset, offset2, frames_range) ==
    <<offset, frames_range[2] - frames_range[1]>>

animations_store_keep_first(anims, name, entry) ==
    [k \in DOMAIN anims \cup {name} |-> IF k \in DOMAIN anims THEN anims[k] ELSE entry]

\* self.animations[name] = ...: a dict store, the name's earlier entry replaced
animations_store(anims, name, entry) ==
    [k \in DOMAIN anims \cup {name} |-> IF k = name THEN entry ELSE anims[k]]

IndexFail == [ok |-> FALSE, offs |-> 0, animations |-> <<>>]

\* the loop body of _index_animations, `count` clips to go
RECURSIVE _index_loop(_, _, _, _)
_index_loop(data, offs, count, anims) ==
    IF count = 0 THEN [ok |-> TRUE, offs |-> offs, animations |-> anims]
    ELSE LET offset == offs
             name   == gets(data, offset)
         IN  IF ~name.ok THEN IndexFail
             ELSE LET offset2      == name.offs
                      frames_range == getf_II(data, offset2)
                  IN  IF ~frames_range.ok THEN IndexFail
                      ELSE LET entry == index_entry(offset, offset2, frames_range.val)
                               anims2 == animations_store(anims, name.val, entry)
                               \* self.pr.set_offset(offset2)
                               skip == _skip_motion_rest(getv(data, offset2), 0)
                           IN  IF ~skip.ok THEN IndexFail
                               ELSE _index_loop(data, offset2 + skip.val, count - 1, anims2)

_index_animations(data) ==
    LET animations_count == getf_I(data, 0)
    IN  IF ~animations_count.ok THEN IndexFail
        ELSE _index_loop(data, animations_count.offs, animations_count.val, <<>>)

\* ob.animation_data is None; ob.animation_data.action is None
None == <<>>
NoAnimData == [has |-> FALSE, action |-> None]
AnimData(act) == [has |-> TRUE, action |-> act]
NoDecode == [name |-> <<>>, after |-> <<>>, cursor_was |-> 0, offs |-> 0,
             motion |-> MotionFail]
NoCall == [op |-> "", name |-> <<>>]

\* SklsFile.__init__ on a file written from the clips cs
SklsFile(cs) ==
    LET data == export_motions(cs)
        idx  == _index_animations(data)
    IN  [ok |-> idx.ok, clips |-> cs, data |-> data, offs |-> idx.offs,
         animations |-> idx.animations]

\* OpBrowseSklsFile.execute: SklsFile(file_path) reads the file at filepath and
\* indexes it; the operator can run again on an open container
execute ==
    LET f == SklsFile(file_clips)
    IN  /\ f.ok
        /\ skls_open' = TRUE
        /\ pr_data' = f.data
        /\ pr_offs' = f.offs
        /\ animations' = f.animations
        /\ decoded' = NoDecode
        /\ last_call' = [op |-> "execute", name |-> <<>>]
        /\ UNCHANGED <<file_clips, prev_name, actions, anim_data, motions>>

\* line 157: the offset the cursor is set to before import_motion runs
decode_offset_unmoved(animation_name) == pr_offs

decode_offset(animation_name) == animations[animation_name][1]

\* the handler holds no assignment to skls_file.animations
index_after_decode_refreshed(animation_name, m) ==
    [animations EXCEPT ![animation_name] = <<m.offs, m.end - m.start>>]

index_after_decode(animation_name, m) == animations

repeat_selection_never(animation_name) == FALSE

\* line 123: animation_name == sk.animations_prev_name
repeat_selection(animation_name) == animation_name = prev_name

\* lines 118-120: no container is open
index_changed_no_file ==
    /\ ~skls_open
    /\ last_call' = [op |-> "index_changed", name |-> <<>>]
    /\ UNCHANGED <<skls_open, pr_data, pr_offs, animations, file_clips, prev_name,
                   actions, anim_data, motions, decoded>>

\* lines 123-124: the selected clip is the one selected before
index_changed_repeat ==
    /\ skls_open
    /\ \E animation_name \in DOMAIN animations :
           /\ repeat_selection(animation_name)
           /\ last_call' = [op |-> "index_changed", name |-> animation_name]
    /\ UNCHANGED <<skls_open, pr_data, pr_offs, animations, file_clips, prev_name,
                   actions, anim_data, motions, decoded>>

\* lines 126-195, for a selection that differs from animations_prev_name.
\* unlinked: bpy.ops.action.unlink() did not raise; motion_ok: import_motion did
\* not raise. A raising import_motion leaves the cursor inside the clip, behind
\* its frame range.
index_changed_select ==
    /\ skls_open
    /\ \E animation_name \in DOMAIN animations, unlinked \in BOOLEAN, motion_ok \in BOOLEAN :
        /\ ~repeat_selection(animation_name)
        /\ last_call' = [op |-> "index_changed", name |-> animation_name]
        /\ LET anim1 == IF unlinked /\ anim_data # NoAnimData
                        THEN AnimData(None) ELSE anim_data
               has   == anim1 # NoAnimData
           IN  IF has /\ anim1.action = None
               THEN \* act.user_clear() raises: act is None
                    /\ anim_data' = NoAnimData
                    /\ UNCHANGED <<skls_open, pr_data, pr_offs, animations, file_clips,
                                   prev_name, actions, motions, decoded>>
               ELSE LET actions2 == IF has THEN actions \ {anim1.action} ELSE actions
                        motions2 == motions \ {prev_name}
                    IN  IF animation_name \notin actions2
                        THEN LET offs1 == decode_offset(animation_name)
                                 m     == import_motion(pr_data, offs1)
                             IN  IF m.ok /\ motion_ok
                                 THEN /\ pr_offs' = m.offs
                                      /\ actions' = actions2 \cup {m.name}
                                      /\ motions' = motions2 \cup {m.name}
                                      /\ prev_name' = animation_name
                                      /\ decoded' = [name |-> animation_name,
                                                     after |-> decoded.name,
                                                     cursor_was |-> pr_offs,
                                                     offs |-> offs1, motion |-> m]
                                      /\ anim_data' = IF animation_name \in actions'
                                                      THEN AnimData(animation_name)
                                                      ELSE NoAnimData
                                      /\ animations' = index_after_decode(animation_name, m)
                                      /\ UNCHANGED <<skls_open, pr_data, file_clips>>
                                 ELSE \* import_motion raises
                                      /\ pr_offs' = IF m.ok THEN m.head ELSE offs1
                                      /\ actions' = actions2
                                      /\ motions' = motions2
                                      /\ anim_data' = NoAnimData
                                      /\ decoded' = [name |-> animation_name,
                                                     after |-> decoded.name,
                                                     cursor_was |-> pr_offs,
                                                     offs |-> offs1, motion |-> m]
                                      /\ UNCHANGED <<skls_open, pr_data, animations,
                                                     file_clips, prev_name>>
                        ELSE /\ actions' = actions2
                             /\ motions' = motions2
                             /\ anim_data' = AnimData(animation_name)
                             /\ UNCHANGED <<skls_open, pr_data, pr_offs, animations,
                                            file_clips, prev_name, decoded>>

skls_animations_index_changed ==
    \/ index_changed_no_file
    \/ index_changed_repeat
    \/ index_changed_select

\* the other parts, not running
OgfIdle ==
    /\ ex_pc = "idle"
    /\ ex_weights = <<>>
    /\ ex_corners = <<>>
    /\ vertices = <<>>
    /\ indices = <<>>
    /\ vmap = <<>>
    /\ cw = <<>>
    /\ mt_dic = <<>>
    /\ mt_res = <<>>

InitSkls ==
    /\ skls_open = FALSE
    /\ pr_data = <<>>
    /\ pr_offs = 0
    /\ animations = <<>>
    /\ file_clips \in SeqsUpTo(ClipSet, MaxClips)
    /\ prev_name = <<>>
    /\ actions \in {{}, {<<1>>}}
    /\ anim_data = NoAnimData
    /\ motions = {}
    /\ decoded = NoDecode
    /\ last_call = NoCall
    /\ OgfIdle
    /\ ObjIdle

NextSkls ==
    \/ execute /\ UNCHANGED <<ogfVars, objVars>>
    \/ skls_animations_index_changed /\ UNCHANGED <<ogfVars, objVars>>

SpecSkls == InitSkls /\ [][NextSkls]_vars

(***************************************************************************)
(* The container as written: where each clip starts, from the sizes of the *)
(* clips before it.                                                        *)
(***************************************************************************)
motion_size(c) == Len(c.name) + 1 + 4 + 4 + 1 + Len(c.rest)

RECURSIVE clip_offset(_, _)
clip_offset(cs, i) ==
    IF i = 1 THEN 4 ELSE clip_offset(cs, i - 1) + motion_size(cs[i - 1])

DistinctNames(cs) ==
    \A i, j \in 1 .. Len(cs) : i # j => cs[i].name # cs[j].name

\* the last clip of cs, in file order, that carries the name
LastNamed(cs, name) ==
    CHOOSE i \in 1 .. Len(cs) :
        /\ cs[i].name = name
        /\ \A j \in (i + 1) .. Len(cs) : cs[j].name # name

(* C1: after indexing a container of N clips with pairwise distinct names, the
   index has exactly N entries, and each clip's entry holds the offset of the
   first byte of that clip's name and end_frame - start_frame of that clip's
   own header. *)
C1_IndexEntries ==
    (skls_open /\ DistinctNames(file_clips)) =>
        /\ Cardinality(DOMAIN animations) = Len(file_clips)
        /\ \A i \in 1 .. Len(file_clips) :
               /\ file_clips[i].name \in DOMAIN animations
               /\ animations[file_clips[i].name] =
                      <<clip_offset(file_clips, i),
                        file_clips[i].end - file_clips[i].start>>

\* a container of two clips with distinct names is indexed; the first has a
\* negative frame count, the second does not start where the first's name ends
C1_Witness ==
    /\ skls_open
    /\ Len(file_clips) = 2
    /\ DistinctNames(file_clips)
    /\ Cardinality(DOMAIN animations) = 2
    /\ animations[file_clips[1].name][2] = 0 - 2
    /\ animations[file_clips[2].name] = <<4 + motion_size(file_clips[1]), 3>>

(* C2: whatever was decoded before and wherever the cursor was left, the bytes
   handed to the motion decoder for a selected clip are those of that clip as
   written in the container, starting at its recorded offset. *)
C2_DecodeOrderIndependent ==
    decoded # NoDecode =>
        LET i == LastNamed(file_clips, decoded.name)
        IN  /\ \E k \in 1 .. Len(file_clips) : file_clips[k].name = decoded.name
            /\ decoded.offs = animations[decoded.name][1]
            /\ decoded.offs = clip_offset(file_clips, i)
            /\ SubSeq(pr_data, decoded.offs + 1, decoded.motion.offs)
                   = export_motion(file_clips[i])
            /\ decoded.motion.name = decoded.name
            /\ decoded.motion.start = file_clips[i].start
            /\ decoded.motion.end = file_clips[i].end
            /\ decoded.motion.rest = file_clips[i].rest

\* the first clip is decoded after the second one was, the cursor being left
\* behind the second clip, not at the first clip's offset
C2_Witness ==
    /\ Len(file_clips) = 2
    /\ DistinctNames(file_clips)
    /\ decoded.name = file_clips[1].name
    /\ decoded.after = file_clips[2].name
    /\ decoded.cursor_was > decoded.offs
    /\ decoded.motion.ok

(* C3: once a container is open, no step (a clip selection, or opening the same
   file again) changes the index (names, offsets, frame counts) or the held
   bytes; only the cursor may move. *)
C3_IndexImmutable ==
    [][skls_open => (animations' = animations /\ pr_data' = pr_data /\ skls_open')]_vars

\* a selection has moved the cursor of an open, non-empty container
C3_Witness ==
    /\ skls_open
    /\ decoded # NoDecode
    /\ pr_offs # Len(pr_data)
    /\ Cardinality(DOMAIN animations) = 2

(* C13: when two or more clips of a container share a name, indexing does not
   fail: the index ends with exactly one entry per distinct name, that entry
   holding the offset and the frame count of the last clip in file order that
   carries the name, and the cursor has advanced past every clip body (it stands
   at the end of the container until a selection moves it). *)
C13_DuplicateNames ==
    ~DistinctNames(file_clips) =>
        /\ SklsFile(file_clips).ok
        /\ skls_open =>
              /\ DOMAIN animations = {file_clips[i].name : i \in 1 .. Len(file_clips)}
              /\ \A name \in DOMAIN animations :
                    LET i == LastNamed(file_clips, name)
                    IN  animations[name] =
                            <<clip_offset(file_clips, i),
                              file_clips[i].end - file_clips[i].start>>
              /\ decoded = NoDecode =>
                    /\ pr_offs = Len(pr_data)
                    /\ pr_offs = clip_offset(file_clips, Len(file_clips))
                                     + motion_size(file_clips[Len(file_clips)])

\* two clips of one name and different frame ranges, indexed: one entry, with
\* the second clip's offset and frame count
C13_Witness ==
    /\ skls_open
    /\ decoded = NoDecode
    /\ Len(file_clips) = 2
    /\ file_clips[1].name = file_clips[2].name
    /\ file_clips[1].end - file_clips[1].start # file_clips[2].end - file_clips[2].start
    /\ Cardinality(DOMAIN animations) = 1
    /\ animations[file_clips[2].name] =
           <<4 + motion_size(file_clips[1]), file_clips[2].end - file_clips[2].start>>
    /\ pr_offs = Len(pr_data)

(***************************************************************************)
(***************************************************************************)
(* fmt_ogf_exp.py: the OGF encoder                                         *)
(***************************************************************************)
(***************************************************************************)
SklsIdle ==
    /\ skls_open = FALSE
    /\ pr_data = <<>>
    /\ pr_offs = 0
    /\ animations = <<>>
    /\ file_clips = <<>>
    /\ prev_name = <<>>
    /\ actions = {}
    /\ anim_data = NoAnimData
    /\ motions = {}
    /\ decoded = NoDecode
    /\ last_call = NoCall

MaxFaces == 2
MaxInfluences == 3

\* the source vertices of the mesh, and the position of each (vertex 3 lies on
\* vertex 0)
VertIds == {0, 1, 2, 3}
VertCo == [i \in VertIds |-> IF i = 3 THEN 0 ELSE i]

\* per-loop data: normal, tangent, bitangent and uv of a face corner
LoopAttrs == { [normal |-> 0, tangent |-> 0, bitangent |-> 0, uv |-> <<0, 0>>],
               [normal |-> 1, tangent |-> 0, bitangent |-> 0, uv |-> <<0, 1>>] }

\* triangles: the source vertex and the per-loop data of each of the three loops
FaceVerts == {<<0, 1, 2>>, <<3, 2, 1>>}
FacesRich == { [verts |-> fv, loops |-> <<a, b, c>>] :
               fv \in FaceVerts, a \in LoopAttrs, b \in LoopAttrs, c \in LoopAttrs }
PlainLoop == [normal |-> 0, tangent |-> 0, bitangent |-> 0, uv |-> <<0, 0>>]
FacesPlain == { [verts |-> fv, loops |-> <<PlainLoop, PlainLoop, PlainLoop>>] :
                fv \in FaceVerts }

(***************************************************************************)
(* max_two(dic): a mapping is a sequence of <<key, value>> with distinct   *)
(* keys; dic comes in keys() order, the result in insertion order.         *)
(***************************************************************************)
NoKey == 0 - 1

dic_get(dic, k) == (CHOOSE i \in 1 .. Len(dic) : dic[i][1] = k)

\* lines 43-47 and 50-54: the key of the first value above every value before
\* it, skipping the key `skip`
RECURSIVE max_scan(_, _, _, _, _)
max_scan(dic, i, mx, k, skip) ==
    IF i > Len(dic) THEN k
    ELSE IF dic[i][2] > mx /\ dic[i][1] # skip
         THEN max_scan(dic, i + 1, dic[i][2], dic[i][1], skip)
         ELSE max_scan(dic, i + 1, mx, k, skip)

second_key_unguarded(dic, k0) == max_scan(dic, 1, 0 - 1, NoKey, NoKey)

second_key(dic, k0) == max_scan(dic, 1, 0 - 1, NoKey, k0)

max_two(dic) ==
    LET k0 == max_scan(dic, 1, 0 - 1, NoKey, NoKey)
        k1 == second_key(dic, k0)
    IN  IF k0 = k1 THEN <<<<k0, dic[dic_get(dic, k0)][2]>>>>
        ELSE <<<<k0, dic[dic_get(dic, k0)][2]>>, <<k1, dic[dic_get(dic, k1)][2]>>>>

(***************************************************************************)
(* _export_child                                                           *)
(***************************************************************************)
\* PackedWriter.putf, one item per format group
putf(fmt, x) == <<<<fmt, x>>>>

VERTEX_FORMAT == 604910336

\* line 90: the key of a face corner
vertex_key(vi, l) ==
    <<vi, VertCo[vi], l.normal, l.tangent, l.bitangent, <<l.uv[1], 1 - l.uv[2]>>>>

NotFound == 0 - 1

vmap_get_nothing(m, vtx) == NotFound

\* vmap.get(vtx)
vmap_get(m, vtx) == IF vtx \in DOMAIN m THEN m[vtx] ELSE NotFound

\* lines 87-95 for loop li of face f, on st = [vertices, vmap, ii]
RECURSIVE export_loops(_, _, _)
export_loops(f, li, st) ==
    IF li > 3 THEN st
    ELSE LET vtx   == vertex_key(f.verts[li], f.loops[li])
             found == vmap_get(st.vmap, vtx)
             vi    == IF found = NotFound THEN Len(st.vertices) ELSE found
         IN  export_loops(f, li + 1,
                 [vertices |-> IF found = NotFound THEN Append(st.vertices, vtx)
                               ELSE st.vertices,
                  vmap     |-> IF found = NotFound
                               THEN [k \in DOMAIN st.vmap \cup {vtx} |->
                                        IF k = vtx THEN vi ELSE st.vmap[k]]
                               ELSE st.vmap,
                  ii       |-> Append(st.ii, vi)])

\* lines 59-84: the header and texture chunks are written, the lists are empty
export_begin ==
    /\ ex_pc = "idle"
    /\ ex_pc' = "faces"
    /\ cw' = cw \o <<<<"HEADER", <<>>>>, <<"0x02", <<>>>>>>
    /\ vertices' = <<>>
    /\ indices' = <<>>
    /\ vmap' = <<>>
    /\ UNCHANGED <<ex_weights, ex_corners, mt_dic, mt_res>>

\* lines 85-96: one face of bm.faces, drawn from Faces
export_face(Faces) ==
    /\ ex_pc = "faces"
    /\ Len(indices) < MaxFaces
    /\ \E f \in Faces :
          LET st == export_loops(f, 1, [vertices |-> vertices, vmap |-> vmap, ii |-> <<>>])
          IN  /\ vertices' = st.vertices
              /\ vmap' = st.vmap
              /\ indices' = Append(indices, st.ii)
              /\ ex_corners' = Append(ex_corners,
                                      [li \in 1 .. 3 |-> <<f.verts[li], f.loops[li]>>])
    /\ UNCHANGED <<ex_pc, ex_weights, cw, mt_dic, mt_res>>

\* the iteration order of the dict max_two returns: insertion order, or (small
\* integer keys under a hash-ordered dict) ascending keys
DictOrders == {"insertion", "hash"}

dict_items(d, order) ==
    IF order = "hash" /\ Len(d) = 2 /\ d[1][1] > d[2][1] THEN <<d[2], d[1]>> ELSE d

putf_HH(a, b) == putf("H", a) \o putf("H", b)

Max(S) == CHOOSE x \in S : \A y \in S : x >= y

\* lines 98-102
max_influences(weights) == Max({Len(weights[v]) : v \in DOMAIN weights} \cup {0})

single_bone_layout_not_two(vwmx) == vwmx # 2

\* line 105
single_bone_layout(vwmx) == vwmx = 1

PackFail == [ok |-> FALSE, pw |-> <<>>]

vertex_record_1_default_bone(v, vw) ==
    [ok |-> TRUE,
     pw |-> putf("fff", v[2]) \o putf("fff", v[3]) \o putf("fff", v[4])
            \o putf("fff", v[5]) \o putf("ff", v[6])
            \o putf("I", IF Len(vw) = 0 THEN 0 ELSE vw[1][1])]

\* lines 107-113: the record of vertex v in the single-bone layout
vertex_record_1(v, vw) ==
    IF Len(vw) = 0 THEN PackFail        \* vw.keys()[0] raises
    ELSE [ok |-> TRUE,
          pw |-> putf("fff", v[2]) \o putf("fff", v[3]) \o putf("fff", v[4])
                 \o putf("fff", v[5]) \o putf("ff", v[6]) \o putf("I", vw[1][1])]

\* lines 119-144: the record of vertex v in the two-slot layout; a blend factor
\* is a fraction <<numerator, denominator>>
vertex_record_2(v, vw0, order) ==
    LET vw   == IF Len(vw0) > 2 THEN dict_items(max_two(vw0), order) ELSE vw0
        tail(bw) == putf("fff", v[2]) \o putf("fff", v[3]) \o putf("fff", v[4])
                    \o putf("fff", v[5]) \o putf("f", bw) \o putf("ff", v[6])
    IN  IF Len(vw) = 2
        THEN LET w0 == vw[1][2]
                 w1 == vw[2][2]
             IN  IF w0 + w1 = 0 THEN PackFail      \* float division by zero
                 ELSE [ok |-> TRUE,
                       pw |-> putf("H", vw[1][1]) \o putf("H", vw[2][1])
                              \o tail(<<(w0 + w1) - w0, w0 + w1>>)]
        ELSE IF Len(vw) = 1
             THEN [ok |-> TRUE, pw |-> putf_HH(vw[1][1], vw[1][1]) \o tail(<<0, 1>>)]
             ELSE PackFail                         \* raise Exception('oops: ...')

\* the loops of lines 106 and 118 from vertex i on
RECURSIVE vertex_records(_, _, _, _, _)
vertex_records(vs, i, weights, single, order) ==
    IF i > Len(vs) THEN [ok |-> TRUE, pw |-> <<>>]
    ELSE LET vw == weights[vs[i][1]]
             r  == IF single THEN vertex_record_1(vs[i], vw)
                   ELSE vertex_record_2(vs[i], vw, order)
         IN  IF ~r.ok THEN PackFail
             ELSE LET rest == vertex_records(vs, i + 1, weights, single, order)
                  IN  IF ~rest.ok THEN PackFail
                      ELSE [ok |-> TRUE, pw |-> r.pw \o rest.pw]

\* lines 104-144: the payload of the vertex chunk
vertex_chunk(vs, weights, order) ==
    LET vwmx == max_influences(weights)
    IN  IF single_bone_layout(vwmx)
        THEN vertex_records(vs, 1, weights, TRUE, order)
        ELSE LET r == vertex_records(vs, 1, weights, FALSE, order)
             IN  IF ~r.ok THEN PackFail
                 ELSE [ok |-> TRUE,
                       pw |-> putf("II", <<VERTEX_FORMAT, Len(vs)>>) \o r.pw]

\* lines 147-150: the payload of the index chunk
RECURSIVE index_records(_, _)
index_records(fs, i) ==
    IF i > Len(fs) THEN <<>>
    ELSE putf("H", fs[i][1]) \o putf("H", fs[i][2]) \o putf("H", fs[i][3])
         \o index_records(fs, i + 1)

index_chunk(fs) == putf("I", 3 * Len(fs)) \o index_records(fs, 1)

\* lines 98-151: bm.faces is exhausted; the vertex and the index chunk are
\* written, or a vertex record raises and nothing more is written
export_finish ==
    /\ ex_pc = "faces"
    /\ \E order \in DictOrders :
          LET r == vertex_chunk(vertices, ex_weights, order)
          IN  IF r.ok
              THEN /\ cw' = cw \o <<<<"0x3", r.pw>>, <<"0x4", index_chunk(indices)>>>>
                   /\ ex_pc' = "done"
              ELSE /\ cw' = cw
                   /\ ex_pc' = "failed"
    /\ UNCHANGED <<ex_weights, ex_corners, vertices, indices, vmap, mt_dic, mt_res>>

(***************************************************************************)
(* The weight mappings of the source vertices.                             *)
(***************************************************************************)
BoneIds == 1 .. MaxInfluences
WeightValues == {0, 1, 2, 7}

\* every mapping of up to MaxInfluences distinct bones, in every keys() order
WeightMaps ==
    {d \in SeqsUpTo(BoneIds \X WeightValues, MaxInfluences) :
        \A i, j \in 1 .. Len(d) : i # j => d[i][1] # d[j][1]}

\* one bone per vertex
WeightsSingle == {[v \in VertIds |-> <<<<1, 7>>>>]}

\* mappings of zero to three bones
PackMaps == { <<>>, <<<<1, 7>>>>, <<<<2, 1>>, <<1, 2>>>>, <<<<1, 0>>, <<2, 0>>>>,
              <<<<1, 1>>, <<2, 2>>, <<3, 7>>>> }

(* the encoder on meshes with many corners and one bone per vertex *)
InitDedup ==
    /\ SklsIdle
    /\ ObjIdle
    /\ ex_pc = "idle"
    /\ ex_weights \in WeightsSingle
    /\ ex_corners = <<>>
    /\ vertices = <<>>
    /\ indices = <<>>
    /\ vmap = <<>>
    /\ cw = <<>>
    /\ mt_dic = <<>>
    /\ mt_res = <<>>

NextDedup ==
    \/ export_begin /\ UNCHANGED <<sklsVars, objVars>>
    \/ export_face(FacesRich) /\ UNCHANGED <<sklsVars, objVars>>
    \/ export_finish /\ UNCHANGED <<sklsVars, objVars>>

SpecDedup == InitDedup /\ [][NextDedup]_vars

(* the encoder on meshes with plain corners and every kind of weight mapping *)
InitPack ==
    /\ SklsIdle
    /\ ObjIdle
    /\ ex_pc = "idle"
    /\ ex_weights \in [VertIds -> PackMaps]
    /\ ex_corners = <<>>
    /\ vertices = <<>>
    /\ indices = <<>>
    /\ vmap = <<>>
    /\ cw = <<>>
    /\ mt_dic = <<>>
    /\ mt_res = <<>>

NextPack ==
    \/ export_begin /\ UNCHANGED <<sklsVars, objVars>>
    \/ export_face(FacesPlain) /\ UNCHANGED <<sklsVars, objVars>>
    \/ export_finish /\ UNCHANGED <<sklsVars, objVars>>

SpecPack == InitPack /\ [][NextPack]_vars

(* max_two on every mapping of more than two influences *)
\* lines 120-121: vw = max_two(vw)
call_max_two ==
    /\ Len(mt_dic) > 2
    /\ mt_res = <<>>
    /\ mt_res' = max_two(mt_dic)
    /\ UNCHANGED <<mt_dic, ex_pc, ex_weights, ex_corners, vertices, indices, vmap, cw>>

InitMaxTwo ==
    /\ SklsIdle
    /\ ObjIdle
    /\ ex_pc = "idle"
    /\ ex_weights = <<>>
    /\ ex_corners = <<>>
    /\ vertices = <<>>
    /\ indices = <<>>
    /\ vmap = <<>>
    /\ cw = <<>>
    /\ mt_dic \in {d \in WeightMaps : Len(d) > 2}
    /\ mt_res = <<>>

NextMaxTwo == call_max_two /\ UNCHANGED <<sklsVars, objVars>>

SpecMaxTwo == InitMaxTwo /\ [][NextMaxTwo]_vars

(***************************************************************************)
(* Claims on the encoder                                                   *)
(***************************************************************************)
\* the key of a corner as the mesh holds it
CornerKey(c) ==
    <<c[1], VertCo[c[1]], c[2].normal, c[2].tangent, c[2].bitangent, c[2].uv>>

\* the corners read so far, as <<face, loop>>, and which come before which
CornerPos == {<<f, li>> : f \in 1 .. Len(ex_corners), li \in 1 .. 3}
Before(p, q) == p[1] < q[1] \/ (p[1] = q[1] /\ p[2] < q[2])
KeyAt(p) == CornerKey(ex_corners[p[1]][p[2]])
IndexAt(p) == indices[p[1]][p[2]]

ChunkPayload(cid) == cw[CHOOSE i \in 1 .. Len(cw) : cw[i][1] = cid][2]
HasChunk(cid) == \E i \in 1 .. Len(cw) : cw[i][1] = cid

(* C8: two face corners get the same output vertex index iff their full keys
   (source vertex index, position, normal, tangent, bitangent, uv) are equal;
   there are as many output vertices as distinct keys; indices are handed out
   0, 1, 2, ... in first-encounter order; every triangle is three indices below
   the output vertex count, and the index chunk carries them. *)
C8_VertexDedup ==
    /\ Len(indices) = Len(ex_corners)
    /\ \A p, q \in CornerPos : (IndexAt(p) = IndexAt(q)) <=> (KeyAt(p) = KeyAt(q))
    /\ Len(vertices) = Cardinality({KeyAt(p) : p \in CornerPos})
    /\ \A p \in CornerPos :
          /\ IndexAt(p) >= 0
          /\ IndexAt(p) < Len(vertices)
          /\ (\A q \in CornerPos : Before(q, p) => KeyAt(q) # KeyAt(p)) =>
                 IndexAt(p) = Cardinality({KeyAt(q) : q \in {r \in CornerPos : Before(r, p)}})
    /\ ex_pc = "done" =>
          LET pw == ChunkPayload("0x4")
          IN  /\ Len(pw) = 1 + 3 * Len(indices)
              /\ pw[1] = <<"I", 3 * Len(indices)>>
              /\ \A p \in CornerPos : pw[1 + 3 * (p[1] - 1) + p[2]] = <<"H", IndexAt(p)>>

\* two faces are exported: a corner of the second reuses an output vertex of the
\* first, and two corners that differ in the source vertex alone do not share one
C8_Witness ==
    /\ ex_pc = "done"
    /\ Len(indices) = 2
    /\ Len(vertices) < 6
    /\ \E a, b \in 1 .. 3 : indices[1][a] = indices[2][b]
    /\ \E a, b \in 1 .. 3 :
          /\ ex_corners[1][a][1] = 0
          /\ ex_corners[2][b][1] = 3
          /\ ex_corners[1][a][2] = ex_corners[2][b][2]
          /\ indices[1][a] # indices[2][b]

(* C9: for a mapping of more than two influences with non-negative weights,
   max_two returns exactly two distinct bones of the input, each with its
   original weight, and no discarded bone has a weight strictly greater than a
   retained one; for {1: 0.1, 2: 0.2, 3: 0.7} (weights in tenths) it retains
   exactly bones 2 and 3. *)
C9_MaxTwo ==
    mt_res # <<>> =>
        LET kept == {mt_res[i][1] : i \in 1 .. Len(mt_res)}
        IN  /\ Len(mt_res) = 2
            /\ mt_res[1][1] # mt_res[2][1]
            /\ \A i \in 1 .. 2 : \E j \in 1 .. Len(mt_dic) : mt_dic[j] = mt_res[i]
            /\ \A j \in 1 .. Len(mt_dic) :
                  mt_dic[j][1] \notin kept =>
                      \A i \in 1 .. 2 : ~(mt_dic[j][2] > mt_res[i][2])
            /\ {mt_dic[j] : j \in 1 .. Len(mt_dic)} = {<<1, 1>>, <<2, 2>>, <<3, 7>>}
                   => kept = {2, 3}

\* max_two has run on {1: 0.1, 2: 0.2, 3: 0.7}, iterated with the largest first
C9_Witness ==
    /\ mt_dic = <<<<3, 7>>, <<1, 1>>, <<2, 2>>>>
    /\ mt_res # <<>>
    /\ {mt_res[i][1] : i \in 1 .. Len(mt_res)} = {2, 3}

\* the format groups of a payload, in order
Formats(pw) == [i \in 1 .. Len(pw) |-> pw[i][1]]

RECURSIVE Repeat(_, _)
Repeat(s, n) == IF n = 0 THEN <<>> ELSE s \o Repeat(s, n - 1)

SingleBoneRecord == <<"fff", "fff", "fff", "fff", "ff", "I">>
TwoSlotRecord == <<"H", "H", "fff", "fff", "fff", "fff", "f", "ff">>

(* C10: the layout of the vertex records is chosen once per mesh from the largest
   number of influences on any of its vertices: if that is exactly 1, every
   record is position, normal, tangent, bitangent, uv and one bone index, with no
   blend factor; for every other maximum every record is two bone slots, the four
   vectors, one blend factor and uv. All records of a mesh have one layout. *)
C10_RecordLayout ==
    ex_pc = "done" =>
        LET pw == ChunkPayload("0x3")
            vwmx == max_influences(ex_weights)
        IN  IF vwmx = 1
            THEN Formats(pw) = Repeat(SingleBoneRecord, Len(vertices))
            ELSE Formats(pw) = <<"II">> \o Repeat(TwoSlotRecord, Len(vertices))

\* a mesh whose exported vertices carry one, two and three influences
C10_Witness ==
    /\ ex_pc = "done"
    /\ Len(vertices) >= 3
    /\ {Len(ex_weights[vertices[i][1]]) : i \in 1 .. Len(vertices)} = {1, 2, 3}

\* a mesh whose vertices all carry one influence gets the single-bone layout
C10_SingleBoneReached ==
    ~(ex_pc = "done" /\ Len(vertices) >= 3 /\ max_influences(ex_weights) = 1)

\* export_finish has run, with or without success
Finished == ex_pc \in {"done", "failed"}

\* the weight mapping of the source vertex of output vertex i
OutWeights(i) == ex_weights[vertices[i][1]]

WeightOf(vw, k) == vw[dic_get(vw, k)][2]
KeysOf(vw) == {vw[j][1] : j \in 1 .. Len(vw)}

\* the items of record i of a two-slot payload: two slots, four vectors, the
\* blend factor and uv, after the 'II' header
SlotItem(pw, i, n) == pw[1 + Len(TwoSlotRecord) * (i - 1) + n][2]

\* fraction bw equals 1 - w0/(w0 + w1)
IsBlend(bw, w0, w1) ==
    /\ w0 + w1 # 0
    /\ bw[2] # 0
    /\ bw[1] * (w0 + w1) = bw[2] * ((w0 + w1) - w0)

\* record i says what the claim says of a vertex with mapping vw: one influence
\* in both slots with factor 0; two influences in the order of the mapping; more
\* than two reduced to two of the largest, in either order, and in each case the
\* factor computed from the weight of the first slot and of the second
TwoSlotRecordOf(pw, i, vw) ==
    LET k0 == SlotItem(pw, i, 1)
        k1 == SlotItem(pw, i, 2)
        bw == SlotItem(pw, i, 7)
    IN  IF Len(vw) = 1
        THEN k0 = vw[1][1] /\ k1 = vw[1][1] /\ bw[1] = 0 /\ bw[2] # 0
        ELSE /\ {k0, k1} \subseteq KeysOf(vw)
             /\ k0 # k1
             /\ Len(vw) = 2 => (k0 = vw[1][1] /\ k1 = vw[2][1])
             /\ \A k \in KeysOf(vw) \ {k0, k1} :
                   WeightOf(vw, k) <= WeightOf(vw, k0) /\ WeightOf(vw, k) <= WeightOf(vw, k1)
             /\ IsBlend(bw, WeightOf(vw, k0), WeightOf(vw, k1))

\* the influences the vertex keeps all weigh nothing: w0 + w1 = 0
ZeroSum(vw) == Len(vw) >= 2 /\ \A k \in KeysOf(vw) : WeightOf(vw, k) = 0

(* C11: in the two-slot layout, a vertex with two influences (after reduction to
   the two largest) emits its two bone indices in the iteration order of the
   weight mapping and the blend factor bw = 1 - w0/(w0 + w1), w0 the weight of
   the first-iterated influence and w1 of the second; a vertex with exactly one
   influence emits that bone index in both slots and bw = 0. Stated of every
   export that ran to the packing of a mesh whose output vertices all carry at
   least one influence. *)
C11_TwoSlotBlend ==
    (/\ Finished
     /\ max_influences(ex_weights) # 1
     /\ \A i \in 1 .. Len(vertices) : Len(OutWeights(i)) >= 1)
    => /\ ex_pc = "done"
       /\ \A i \in 1 .. Len(vertices) :
             TwoSlotRecordOf(ChunkPayload("0x3"), i, OutWeights(i))

\* the same of the exports that wrote their chunks
C11_BlendWhereWritten ==
    (ex_pc = "done" /\ max_influences(ex_weights) # 1)
    => \A i \in 1 .. Len(vertices) :
          TwoSlotRecordOf(ChunkPayload("0x3"), i, OutWeights(i))

\* an export of vertices with influences fails only on a pair of weights 0
C11_FailsOnZeroSumOnly ==
    (/\ Finished
     /\ max_influences(ex_weights) # 1
     /\ \A i \in 1 .. Len(vertices) : Len(OutWeights(i)) >= 1)
    => (ex_pc = "failed" <=> \E i \in 1 .. Len(vertices) : ZeroSum(OutWeights(i)))

\* written records of vertices with one, two and three influences
C11_Witness ==
    /\ ex_pc = "done"
    /\ max_influences(ex_weights) # 1
    /\ {Len(OutWeights(i)) : i \in 1 .. Len(vertices)} = {1, 2, 3}

\* the export of a vertex whose two influences weigh 0 and 0
C11_ZeroSumReached ==
    /\ ex_pc = "failed"
    /\ \A i \in 1 .. Len(vertices) : Len(OutWeights(i)) >= 1
    /\ \E i \in 1 .. Len(vertices) : ZeroSum(OutWeights(i))

\* some output vertex comes from a source vertex without influences
EmptyMapping == \E i \in 1 .. Len(vertices) : Len(OutWeights(i)) = 0

(* C12: exporting a mesh in which the source vertex of some output vertex has an
   empty weight mapping fails, whatever the mesh-wide maximum of influences is,
   and on that failure neither the vertex chunk (0x3) nor the index chunk (0x4)
   of the mesh is written to its chunk writer. *)
C12_EmptyMappingFatal ==
    (Finished /\ EmptyMapping)
    => /\ ex_pc = "failed"
       /\ ~HasChunk("0x3")
       /\ ~HasChunk("0x4")

\* the failure in the single-bone layout: the other vertices carry one influence
C12_Witness ==
    /\ ex_pc = "failed"
    /\ EmptyMapping
    /\ max_influences(ex_weights) = 1
    /\ Len(vertices) >= 3

\* the failure in the two-slot layout, no pair of weights 0 among the vertices
C12_TwoSlotReached ==
    /\ ex_pc = "failed"
    /\ EmptyMapping
    /\ max_influences(ex_weights) > 1
    /\ \A i \in 1 .. Len(vertices) : ~ZeroSum(OutWeights(i))

\* the failure of a mesh none of whose vertices carries an influence
C12_NoInfluenceReached ==
    /\ ex_pc = "failed"
    /\ EmptyMapping
    /\ max_influences(ex_weights) = 0

(***************************************************************************)
(***************************************************************************)
(* fmt_object_imp.py: the object decoder                                   *)
(***************************************************************************)
(***************************************************************************)

(***************************************************************************)
(* _import_mesh. The mesh under construction is a record:                  *)
(*   nverts     len(bm.verts)                                              *)
(*   faces      bmfaces: per slot NoFace or the face's three vertices      *)
(*   smooth     bmf.smooth, per slot                                       *)
(*   mat        bmf.material_index, per slot                               *)
(*   seam       the edges (two vertices) with bme.seam = True              *)
(*   sharp      the edges with bme.smooth = False                          *)
(*   uv         <<layer, slot, loop>> -> the uv set on that loop           *)
(*   groups     bo_mesh.vertex_groups, by name                             *)
(*   weights    <<vertex, group index>> -> weight                          *)
(*   materials  bm_data.materials, by name                                 *)
(*   modifiers  bo_mesh.modifiers, by name                                 *)
(*   name, flags, options   bo_mesh.name, data.xray.flags, data.xray.options *)
(*   uvlayers   the names in bm.loops.layers.uv                            *)
(*   images     the uv texture faces got their images (line 353)           *)
(***************************************************************************)
NoFace == <<>>

NewMesh ==
    [nverts |-> 0, faces |-> <<>>, smooth |-> <<>>, mat |-> <<>>, seam |-> {},
     sharp |-> {}, uv |-> <<>>, uvlayers |-> {}, groups |-> <<>>, weights |-> <<>>,
     materials |-> <<>>, modifiers |-> <<>>, name |-> "tmp", flags |-> 0,
     options |-> <<0, 0>>, images |-> FALSE]

\* the outcome of a chunk handler: the mesh after it, or the exception raised;
\* skipped: a None slot of bmfaces was referenced and passed over
Handled(m, skipped) == [ok |-> TRUE, err |-> "", m |-> m, skipped |-> skipped]
Raised(m, err) == [ok |-> FALSE, err |-> err, m |-> m, skipped |-> FALSE]

\* with f defined on its domain, f with k mapped to v
Put(f, k, v) == [x \in DOMAIN f \cup {k} |-> IF x = k THEN v ELSE f[x]]

\* ---- VERTS, lines 47-50 ------------------------------------------------
mesh_VERTS(m, count) == Handled([m EXCEPT !.nverts = @ + count], FALSE)

\* ---- FACES, lines 51-59 ------------------------------------------------
\* fr[::2]: the vertex indices of a face record of six indices
face_verts(fr) == <<fr[1], fr[3], fr[5]>>

\* bmesh: bm.faces.new(verts) raises ValueError for a vertex used twice and for
\* a face that exists on the same vertices
faces_new_rejects(faces, vs) ==
    \/ Cardinality({vs[1], vs[2], vs[3]}) < 3
    \/ \E j \in 1 .. Len(faces) :
          /\ faces[j] # NoFace
          /\ {faces[j][1], faces[j][2], faces[j][3]} = {vs[1], vs[2], vs[3]}

rejected_slot_dropped(bmfaces) == bmfaces

\* line 58: bmfaces.append(None)
rejected_slot(bmfaces) == Append(bmfaces, NoFace)

RECURSIVE faces_loop(_, _, _)
faces_loop(m, frs, i) ==
    IF i > Len(frs) THEN Handled(m, FALSE)
    ELSE LET vs == face_verts(frs[i])
         IN  IF \E k \in 1 .. 3 : vs[k] >= m.nverts
             THEN Raised(m, "IndexError")           \* bm.verts[vi]
             ELSE IF faces_new_rejects(m.faces, vs)
                  THEN LET fs == rejected_slot(m.faces)
                       IN  faces_loop([m EXCEPT !.faces = fs,
                                                !.smooth = [j \in 1 .. Len(fs) |->
                                                    IF j <= Len(m.smooth) THEN m.smooth[j] ELSE FALSE],
                                                !.mat = [j \in 1 .. Len(fs) |->
                                                    IF j <= Len(m.mat) THEN m.mat[j] ELSE 0]],
                                      frs, i + 1)
                  ELSE faces_loop([m EXCEPT !.faces = Append(@, vs),
                                            !.smooth = Append(@, FALSE),
                                            !.mat = Append(@, 0)],
                                  frs, i + 1)

mesh_FACES(m, frs) == faces_loop(m, frs, 1)

\* ---- SG, lines 63-82 ---------------------------------------------------
\* bmf.edges
face_edges(f) == <<{f[1], f[2]}, {f[2], f[3]}, {f[3], f[1]}>>

edict_first_forgotten(edict, bme, sg) == edict

\* line 78: edict[bme] = sg, for an edge seen for the first time
edict_first(edict, bme, sg) == Put(edict, bme, sg)

\* lines 75-82 for edge k of a face, on st = [edict, seam, sharp]
RECURSIVE sg_edges(_, _, _, _)
sg_edges(es, k, sg, st) ==
    IF k > Len(es) THEN st
    ELSE LET bme == es[k]
         IN  IF bme \notin DOMAIN st.edict
             THEN sg_edges(es, k + 1, sg, [st EXCEPT !.edict = edict_first(@, bme, sg)])
             ELSE IF st.edict[bme] # sg
                  THEN sg_edges(es, k + 1, sg,
                                [edict |-> Put(st.edict, bme, sg),
                                 seam  |-> st.seam \cup {bme},
                                 sharp |-> st.sharp \cup {bme}])
                  ELSE sg_edges(es, k + 1, sg, st)

\* lines 69-82 from face index fi (0-based) on
RECURSIVE sg_loop(_, _, _, _, _)
sg_loop(m, sgs, fi, edict, skipped) ==
    IF fi >= Len(sgs) THEN Handled(m, skipped)
    ELSE IF fi >= Len(m.faces) THEN Raised(m, "IndexError")        \* bmfaces[fi]
    ELSE LET bmf == m.faces[fi + 1]
         IN  IF bmf = NoFace THEN sg_loop(m, sgs, fi + 1, edict, TRUE)
             ELSE LET st == sg_edges(face_edges(bmf), 1, sgs[fi + 1],
                                     [edict |-> edict, seam |-> m.seam, sharp |-> m.sharp])
                  IN  sg_loop([m EXCEPT !.smooth[fi + 1] = TRUE,
                                        !.seam = st.seam, !.sharp = st.sharp],
                              sgs, fi + 1, st.edict, skipped)

mesh_SG(m, sgs) ==
    sg_loop([m EXCEPT !.modifiers = Append(@, "XRay: do smoothing groups")],
            sgs, 0, <<>>, FALSE)

\* ---- SFACE, lines 83-97 ------------------------------------------------
\* lines 92-97 for the face indices fis of one surface, from the i-th on
RECURSIVE sface_faces(_, _, _, _, _)
sface_faces(m, fis, i, midx, skipped) ==
    IF i > Len(fis) THEN Handled(m, skipped)
    ELSE IF fis[i] >= Len(m.faces) THEN Raised(m, "IndexError")    \* bmfaces[fi]
    ELSE IF m.faces[fis[i] + 1] = NoFace THEN sface_faces(m, fis, i + 1, midx, TRUE)
    ELSE sface_faces([m EXCEPT !.mat[fis[i] + 1] = midx], fis, i + 1, midx, skipped)

\* lines 85-97 from the i-th surface [name, faces] on
RECURSIVE sface_loop(_, _, _, _)
sface_loop(m, surfaces, i, skipped) ==
    IF i > Len(surfaces) THEN Handled(m, skipped)
    ELSE LET midx == Len(m.materials)
             m1   == [m EXCEPT !.materials = Append(@, surfaces[i].name)]
             r    == sface_faces(m1, surfaces[i].faces, 1, midx, skipped)
         IN  IF ~r.ok THEN r ELSE sface_loop(r.m, surfaces, i + 1, r.skipped)

mesh_SFACE(m, surfaces) == sface_loop(m, surfaces, 1, FALSE)

\* ---- VMAPS2, lines 100-141 ---------------------------------------------
\* The payload is the sequence of the numbers written one after another: the
\* entry count, then for each entry name, dim, discon, type, sz, the sz values
\* (two numbers for a uv, one for a weight), sz vertex indices and, for a
\* disconnected entry, sz face indices. A name stands as one number.
RECURSIVE Flatten(_)
Flatten(ss) == IF ss = <<>> THEN <<>> ELSE Head(ss) \o Flatten(Tail(ss))

\* the writer's side of one entry e = [name, dim, discon, typ, vals, vtx, fcs]
put_vmap(e) ==
    <<e.name, e.dim, IF e.discon THEN 1 ELSE 0, e.typ, Len(e.vtx)>>
        \o (IF e.typ % 4 = 0 THEN Flatten(e.vals) ELSE e.vals)
        \o e.vtx \o (IF e.discon THEN e.fcs ELSE <<>>)

put_vmaps(es) == <<Len(es)>> \o Flatten([i \in 1 .. Len(es) |-> put_vmap(es[i])])

\* PackedReader.getf of n values at the 0-based cursor pos
getn(data, pos, n) == [i \in 1 .. n |-> data[pos + i]]

\* line 123 and line 128: (uv[0], 1 - uv[1])
flip_uv(uv) == <<uv[1], 1 - uv[2]>>

\* the first loop of face f at vertex vi (lines 121-124); 0 when there is none
loop_at(f, vi) ==
    IF f[1] = vi THEN 1 ELSE IF f[2] = vi THEN 2 ELSE IF f[3] = vi THEN 3 ELSE 0

\* lines 116-124, from the i-th triple of zip(uvs, vtx, fcs) on
RECURSIVE uv_discon(_, _, _, _, _, _, _)
uv_discon(m, n, uvs, vtx, fcs, i, skipped) ==
    IF i > Len(uvs) THEN Handled(m, skipped)
    ELSE IF fcs[i] >= Len(m.faces) THEN Raised(m, "IndexError")     \* bmfaces[fi]
    ELSE LET bmf == m.faces[fcs[i] + 1]
         IN  IF bmf = NoFace THEN uv_discon(m, n, uvs, vtx, fcs, i + 1, TRUE)
             ELSE IF loop_at(bmf, vtx[i]) = 0
                  THEN uv_discon(m, n, uvs, vtx, fcs, i + 1, skipped)
                  ELSE uv_discon([m EXCEPT !.uv = Put(@, <<n, fcs[i], loop_at(bmf, vtx[i])>>,
                                                      flip_uv(uvs[i]))],
                                 n, uvs, vtx, fcs, i + 1, skipped)

\* bm.verts[vi].link_loops as <<slot, loop>> pairs
link_loops(m, vi) ==
    {<<fi, k>> \in (0 .. Len(m.faces) - 1) \X (1 .. 3) :
        m.faces[fi + 1] # NoFace /\ m.faces[fi + 1][k] = vi}

\* lines 126-128, from the i-th pair of zip(uvs, vtx) on
RECURSIVE uv_con(_, _, _, _, _)
uv_con(m, n, uvs, vtx, i) ==
    IF i > Len(uvs) THEN Handled(m, FALSE)
    ELSE IF vtx[i] >= m.nverts THEN Raised(m, "IndexError")         \* bm.verts[vi]
    ELSE LET ls == link_loops(m, vtx[i])
             ks == {<<n, l[1], l[2]>> : l \in ls}
         IN  uv_con([m EXCEPT !.uv = [x \in DOMAIN @ \cup ks |->
                                         IF x \in ks THEN flip_uv(uvs[i]) ELSE @[x]]],
                    n, uvs, vtx, i + 1)

\* lines 138-139, from the i-th pair of zip(wgs, vtx) on
RECURSIVE weights_con(_, _, _, _, _)
weights_con(m, vgi, wgs, vtx, i) ==
    IF i > Len(wgs) THEN Handled(m, FALSE)
    ELSE IF vtx[i] >= m.nverts THEN Raised(m, "IndexError")         \* bm.verts[vi]
    ELSE weights_con([m EXCEPT !.weights = Put(@, <<vtx[i], vgi>>, wgs[i])],
                     vgi, wgs, vtx, i + 1)

discon_weights_keep_cursor(sz) == 0

\* lines 135-136: a disconnected weight map reads its sz face indices
discon_weights_fcs(sz) == sz

\* lines 103-141 for the entry at the cursor pos; the cursor after it in .pos
vmap_entry(m, data, pos) ==
    IF pos + 5 > Len(data) THEN Raised(m, "struct.error") @@ [pos |-> pos]
    ELSE LET n      == data[pos + 1]
             discon == data[pos + 3] # 0
             typ    == data[pos + 4] % 4
             sz     == data[pos + 5]
             p0     == pos + 5
             w      == IF typ = 0 THEN 2 ELSE 1     \* 'ff' or 'f'
             need   == w * sz + sz + (IF discon THEN sz ELSE 0)
         IN  IF typ \notin {0, 1}
             THEN Raised(m, "unknown vmap type") @@ [pos |-> p0]
             ELSE IF p0 + need > Len(data)
             THEN Raised(m, "struct.error") @@ [pos |-> p0]
             ELSE LET uvs  == [i \in 1 .. sz |-> <<data[p0 + 2 * i - 1], data[p0 + 2 * i]>>]
                      vals == getn(data, p0, sz)
                      vtx  == getn(data, p0 + w * sz, sz)
                      fcs  == getn(data, p0 + w * sz + sz, sz)
                  IN  IF typ = 0
                      THEN LET m0 == [m EXCEPT !.uvlayers = @ \cup {n}]
                           IN  IF discon
                               THEN uv_discon(m0, n, uvs, vtx, fcs, 1, FALSE)
                                        @@ [pos |-> p0 + 4 * sz]
                               ELSE uv_con(m0, n, uvs, vtx, 1) @@ [pos |-> p0 + 3 * sz]
                      ELSE LET vgi == Len(m.groups)
                               m1  == [m EXCEPT !.groups = Append(@, n)]
                           IN  IF discon
                               THEN Handled(m1, FALSE)
                                        @@ [pos |-> p0 + 2 * sz + discon_weights_fcs(sz)]
                               ELSE weights_con(m1, vgi, vals, vtx, 1)
                                        @@ [pos |-> p0 + 2 * sz]

\* lines 102-141, with left entries to go from the cursor pos
RECURSIVE vmaps_loop(_, _, _, _, _)
vmaps_loop(m, data, pos, left, skipped) ==
    IF left = 0 THEN Handled(m, skipped)
    ELSE LET r == vmap_entry(m, data, pos)
         IN  IF ~r.ok THEN Raised(r.m, r.err)
             ELSE vmaps_loop(r.m, data, r.pos, left - 1, skipped \/ r.skipped)

mesh_VMAPS2(m, data) ==
    IF Len(data) < 1 THEN Raised(m, "struct.error")
    ELSE vmaps_loop(m, data, 1, data[1], FALSE)

\* ---- MESHNAME, FLAGS, OPTIONS, VMREFS, BBOX ----------------------------
mesh_MESHNAME(m, name) == Handled([m EXCEPT !.name = name], FALSE)
mesh_FLAGS(m, flags) == Handled([m EXCEPT !.flags = flags], FALSE)
mesh_OPTIONS(m, options) == Handled([m EXCEPT !.options = options], FALSE)
mesh_pass(m) == Handled(m, FALSE)

(***************************************************************************)
(* The readers. ChunkedReader hands out the chunks of a buffer in file     *)
(* order; a chunk is delivered to the model as its tag (by name) and its   *)
(* decoded payload. Which chunk comes next is the file's choice.           *)
(***************************************************************************)
\* the tags with a branch in the dispatch of each level
RootTags == {"MAIN"}
MainTags == {"MESHES", "SURFACES2", "BONES1", "TRANSFORM", "FLAGS", "USERDATA",
             "LOD_REF", "REVISION", "PARTITIONS1", "MOTION_REFS"}
MeshTags == {"VERTS", "FACES", "MESHNAME", "SG", "SFACE", "VMREFS", "VMAPS2",
             "FLAGS", "BBOX", "OPTIONS"}
BoneTags == {"DEF", "MATERIAL", "SHAPE", "IK_JOINT", "MASS_PARAMS", "IK_FLAGS",
             "BREAK_PARAMS", "FRICTION"}

\* tags without a branch: a synthetic one, and VERSION met again inside a loop
UnknownTags == {"X", "VERSION"}

MESH_VERSION == 17
BONE_VERSION == 2
OBJECT_VERSION == 16

VersionWords == {BONE_VERSION, OBJECT_VERSION, MESH_VERSION}

\* what cr.next / cr.nextf can find at the head of a record: a VERSION chunk
\* with some version word, another chunk, or no chunk at all
FirstChunks ==
    {[cid |-> "VERSION", data |-> v] : v \in VersionWords}
        \cup {[cid |-> "X", data |-> OBJECT_VERSION], [cid |-> "", data |-> 0]}

NoError == [kind |-> "", what |-> "", value |-> 0]

\* line 39, line 157, line 229: the exception for a version word
unsupported(what, ver) == [kind |-> "unsupported version", what |-> what, value |-> ver]

version_accepted_unchecked(ver, expected) == TRUE

\* line 38, line 156, line 228
version_supported(ver, expected) == ver = expected

warn_imknown_chunk_raises(cid, location) == [ok |-> FALSE, warning |-> <<cid, location>>]

\* lines 27-28: prints and returns
warn_imknown_chunk(cid, location) == [ok |-> TRUE, warning |-> <<cid, location>>]

Running(lv) == status = "running" /\ level = lv

\* the next chunk of a dispatch loop is (cid, data)
ReadLoop(cid, data) ==
    /\ chunks_left > 0
    /\ chunks_left' = chunks_left - 1
    /\ last_chunk' = [n |-> last_chunk.n + 1, level |-> level, cid |-> cid, data |-> data]

\* cr.next(expected_cid) found (cid, data)
ReadNext(cid, data) ==
    /\ chunks_left' = chunks_left
    /\ last_chunk' = [n |-> last_chunk.n + 1, level |-> level, cid |-> cid, data |-> data]

Fail(kind, what, value) ==
    /\ status' = "failed"
    /\ error' = [kind |-> kind, what |-> what, value |-> value]

\* ChunkedReader.next / nextf on the first chunk c of a record: the outcome
\* for a missing or another chunk
next_raises(c, expected_cid) ==
    IF c.cid = "" THEN [kind |-> "StopIteration", what |-> expected_cid, value |-> 0]
    ELSE IF c.cid # expected_cid
    THEN [kind |-> "expected chunk", what |-> expected_cid, value |-> 0]
    ELSE NoError

\* the else branch of a dispatch loop (line 149, 223, 349, 361)
unknown_chunk(location) ==
    /\ Running(location)
    /\ \E cid \in UnknownTags :
          /\ ReadLoop(cid, <<>>)
          /\ LET w == warn_imknown_chunk(cid, location)
             IN  IF w.ok
                 THEN /\ warnings' = Append(warnings, w.warning)
                      /\ UNCHANGED <<status, error>>
                 ELSE /\ warnings' = warnings
                      /\ Fail("Exception", cid, 0)
    /\ UNCHANGED <<level, cx_bpy, bpy_obj, meshes, mesh, arm, materials, created,
                   null_skips>>

(***************************************************************************)
(* _import, lines 356-361, and import_file, lines 364-366                  *)
(***************************************************************************)
import_MAIN ==
    /\ Running("root")
    /\ ReadLoop("MAIN", <<>>)
    /\ level' = "main_begin"
    /\ UNCHANGED <<status, error, warnings, cx_bpy, bpy_obj, meshes, mesh, arm,
                   materials, created, null_skips>>

import_unknown == unknown_chunk("root")

\* the root reader is exhausted: import_file returns
import_end ==
    /\ Running("root")
    /\ status' = "done"
    /\ UNCHANGED <<level, error, warnings, chunks_left, last_chunk, cx_bpy, bpy_obj,
                   meshes, mesh, arm, materials, created, null_skips>>

(***************************************************************************)
(* _import_main, lines 226-353                                             *)
(***************************************************************************)
NoObject == [exists |-> FALSE, fields |-> <<>>, matrix |-> <<>>]
NoDef == [name |-> "", parent |-> "", vmap |-> ""]

\* bpy_armature is not None, bpy_arm_obj is bound, the bones of the armature,
\* bonemat, the pose bone groups, the bone being decoded, the cx.report calls,
\* the tails were set (lines 296-308)
NoArmature == [exists |-> FALSE, bound |-> FALSE, bones |-> <<>>, bonemat |-> <<>>,
               groups |-> <<>>, cur |-> NoDef, reports |-> 0, tails |-> FALSE]

\* lines 227-239
import_main_version ==
    /\ Running("main_begin")
    /\ \E c \in FirstChunks :
          /\ ReadNext(c.cid, c.data)
          /\ IF next_raises(c, "VERSION") # NoError
             THEN /\ status' = "failed" /\ error' = next_raises(c, "VERSION")
                  /\ UNCHANGED <<level, bpy_obj, meshes, arm, created>>
             ELSE IF ~version_supported(c.data, OBJECT_VERSION)
             THEN /\ status' = "failed" /\ error' = unsupported("OBJECT", c.data)
                  /\ UNCHANGED <<level, bpy_obj, meshes, arm, created>>
             ELSE /\ level' = "main"
                  /\ bpy_obj' = [NoObject EXCEPT !.exists = cx_bpy]
                  /\ created' = [created EXCEPT !.objects = IF cx_bpy THEN @ + 1 ELSE @]
                  /\ meshes' = <<>>
                  /\ arm' = NoArmature
                  /\ UNCHANGED <<status, error>>
    /\ UNCHANGED <<warnings, cx_bpy, mesh, materials, null_skips>>

\* line 241-242: the MESHES payload is opened as a reader
main_MESHES ==
    /\ Running("main")
    /\ ReadLoop("MESHES", <<>>)
    /\ level' = "meshes"
    /\ UNCHANGED <<status, error, warnings, cx_bpy, bpy_obj, meshes, mesh, arm,
                   materials, created, null_skips>>

\* line 242-243: the next chunk of the MESHES payload is a mesh, whatever its tag
meshes_next ==
    /\ Running("meshes")
    /\ ReadLoop("_", <<>>)
    /\ level' = "mesh_begin"
    /\ UNCHANGED <<status, error, warnings, cx_bpy, bpy_obj, meshes, mesh, arm,
                   materials, created, null_skips>>

meshes_end ==
    /\ Running("meshes")
    /\ level' = "main"
    /\ UNCHANGED <<status, error, warnings, chunks_left, last_chunk, cx_bpy, bpy_obj,
                   meshes, mesh, arm, materials, created, null_skips>>

\* lines 244-273 on the surfaces ss = [name, texture]; loaded: cx.image finds
\* the texture files
main_SURFACES2(Surfaces) ==
    /\ Running("main")
    /\ \E ss \in Surfaces, loaded \in BOOLEAN :
          /\ ReadLoop("SURFACES2", ss)
          /\ LET hit(n) == \E i \in 1 .. Len(ss) : ss[i].name = n
                 tex(n) == \E i \in 1 .. Len(ss) : ss[i].name = n /\ ss[i].texture # ""
             IN  IF ~cx_bpy THEN UNCHANGED <<status, error, materials>>
                 ELSE IF ~loaded /\ \E n \in DOMAIN materials : tex(n)
                 THEN Fail("RuntimeError", "SURFACES2", 0) /\ UNCHANGED materials
                 ELSE /\ materials' = [n \in DOMAIN materials |->
                                          [tex  |-> materials[n].tex \/ tex(n),
                                           surf |-> materials[n].surf \/ hit(n)]]
                      /\ UNCHANGED <<status, error>>
    /\ UNCHANGED <<level, warnings, cx_bpy, bpy_obj, meshes, mesh, arm, created,
                   null_skips>>

\* lines 274-281
main_BONES1 ==
    /\ Running("main")
    /\ ReadLoop("BONES1", <<>>)
    /\ level' = "bones"
    /\ IF cx_bpy /\ ~arm.exists
       THEN /\ arm' = [NoArmature EXCEPT !.exists = TRUE, !.bound = TRUE]
            /\ created' = [created EXCEPT !.armatures = @ + 1, !.objects = @ + 1]
       ELSE /\ arm' = [arm EXCEPT !.bonemat = <<>>]
            /\ UNCHANGED created
    /\ UNCHANGED <<status, error, warnings, cx_bpy, bpy_obj, meshes, mesh, materials,
                   null_skips>>

\* lines 314-319
main_TRANSFORM(Transforms) ==
    /\ Running("main")
    /\ \E t \in Transforms :
          /\ ReadLoop("TRANSFORM", t)
          /\ IF ~bpy_obj.exists
             THEN Fail("AttributeError", "TRANSFORM", 0) /\ UNCHANGED bpy_obj
             ELSE /\ bpy_obj' = [bpy_obj EXCEPT !.matrix = Append(@, t)]
                  /\ UNCHANGED <<status, error>>
    /\ UNCHANGED <<level, warnings, cx_bpy, meshes, mesh, arm, materials, created,
                   null_skips>>

MainFieldTags == {"FLAGS", "USERDATA", "LOD_REF", "REVISION", "MOTION_REFS"}

\* lines 320-331 and 346-347: bpy_obj.xray.<field> = the payload
main_field(Values) ==
    /\ Running("main")
    /\ \E cid \in MainFieldTags, v \in Values :
          /\ ReadLoop(cid, v)
          /\ IF ~bpy_obj.exists
             THEN Fail("AttributeError", cid, 0) /\ UNCHANGED bpy_obj
             ELSE /\ bpy_obj' = [bpy_obj EXCEPT !.fields = Put(@, cid, v)]
                  /\ UNCHANGED <<status, error>>
    /\ UNCHANGED <<level, warnings, cx_bpy, meshes, mesh, arm, materials, created,
                   null_skips>>

bone_names == {arm.bones[i].name : i \in 1 .. Len(arm.bones)}

\* lines 332-345 on the partitions ps = [name, bones]
main_PARTITIONS1(Partitions) ==
    /\ Running("main")
    /\ \E ps \in Partitions :
          /\ ReadLoop("PARTITIONS1", ps)
          /\ IF ~cx_bpy
             THEN Fail("AttributeError", "PARTITIONS1", 0) /\ UNCHANGED arm
             ELSE IF ~arm.bound
             THEN Fail("UnboundLocalError", "PARTITIONS1", 0) /\ UNCHANGED arm
             ELSE IF \E i \in 1 .. Len(ps) : \E j \in 1 .. Len(ps[i].bones) :
                         ps[i].bones[j] \notin bone_names
             THEN Fail("KeyError", "PARTITIONS1", 0) /\ UNCHANGED arm
             ELSE /\ arm' = [arm EXCEPT
                        !.groups = @ \o [i \in 1 .. Len(ps) |-> ps[i].name],
                        !.bones = [b \in 1 .. Len(@) |->
                            LET gs == {i \in 1 .. Len(ps) : \E j \in 1 .. Len(ps[i].bones) :
                                           ps[i].bones[j] = @[b].name}
                            IN  IF gs = {} THEN @[b]
                                ELSE [@[b] EXCEPT !.group = Len(arm.groups) + Max(gs)]]]
                  /\ UNCHANGED <<status, error>>
    /\ UNCHANGED <<level, warnings, cx_bpy, bpy_obj, meshes, mesh, materials, created,
                   null_skips>>

main_unknown == unknown_chunk("main")

\* lines 351-353 for one mesh: the exception raised, "" for none
images_raises(m) ==
    LET bad == {i \in 1 .. Len(m.faces) :
                   /\ m.faces[i] # NoFace
                   /\ \/ m.mat[i] >= Len(m.materials)
                      \/ ~materials[m.materials[m.mat[i] + 1]].tex}
    IN  IF m.uvlayers = {} THEN "IndexError"               \* uv_textures[0]
        ELSE IF bad = {} THEN ""
        ELSE IF m.mat[Min(bad)] >= Len(m.materials)
             THEN "IndexError"                             \* materials[...]
             ELSE "AttributeError"                         \* None.image

\* lines 350-353, then back in _import's loop
main_end ==
    /\ Running("main")
    /\ LET bad == {k \in 1 .. Len(meshes) : images_raises(meshes[k]) # ""}
       IN  IF bad # {}
           THEN /\ Fail(images_raises(meshes[Min(bad)]), "", 0)
                /\ UNCHANGED <<level, meshes>>
           ELSE /\ level' = "root"
                /\ meshes' = [k \in 1 .. Len(meshes) |-> [meshes[k] EXCEPT !.images = TRUE]]
                /\ UNCHANGED <<status, error>>
    /\ UNCHANGED <<warnings, chunks_left, last_chunk, cx_bpy, bpy_obj, mesh, arm,
                   materials, created, null_skips>>

(***************************************************************************)
(* _import_mesh, lines 36-151, as steps of the reader                      *)
(***************************************************************************)
\* lines 37-45
import_mesh_version ==
    /\ Running("mesh_begin")
    /\ \E c \in FirstChunks :
          /\ ReadNext(c.cid, c.data)
          /\ IF next_raises(c, "VERSION") # NoError
             THEN /\ status' = "failed" /\ error' = next_raises(c, "VERSION")
                  /\ UNCHANGED <<level, mesh, created>>
             ELSE IF ~version_supported(c.data, MESH_VERSION)
             THEN /\ status' = "failed" /\ error' = unsupported("MESH", c.data)
                  /\ UNCHANGED <<level, mesh, created>>
             ELSE IF ~cx_bpy
             THEN /\ Fail("AttributeError", "", 0)         \* line 41, after line 40
                  /\ created' = [created EXCEPT !.meshes = @ + 1]
                  /\ UNCHANGED <<level, mesh>>
             ELSE /\ level' = "mesh"
                  /\ mesh' = NewMesh
                  /\ created' = [created EXCEPT !.meshes = @ + 1, !.objects = @ + 1]
                  /\ UNCHANGED <<status, error>>
    /\ UNCHANGED <<warnings, cx_bpy, bpy_obj, meshes, arm, materials, null_skips>>

\* the most face records one mesh is given, over all its FACES chunks
MaxFaceRecs == 3

\* a branch of the loop of line 46 for the chunk (cid, data), r its outcome
mesh_chunk(cid, data, r) ==
    /\ ReadLoop(cid, data)
    /\ IF r.ok
       THEN /\ mesh' = r.m
            /\ null_skips' = IF r.skipped THEN null_skips \cup {cid} ELSE null_skips
            /\ UNCHANGED <<status, error>>
       ELSE /\ Fail(r.err, cid, 0)
            /\ UNCHANGED <<mesh, null_skips>>
    /\ UNCHANGED <<level, warnings, cx_bpy, bpy_obj, meshes, arm, created>>

import_mesh_VERTS(Counts) ==
    /\ Running("mesh")
    /\ \E count \in Counts : mesh_chunk("VERTS", count, mesh_VERTS(mesh, count))
    /\ UNCHANGED materials

import_mesh_FACES(FaceLists) ==
    /\ Running("mesh")
    /\ \E frs \in FaceLists :
          /\ Len(mesh.faces) + Len(frs) <= MaxFaceRecs
          /\ mesh_chunk("FACES", frs, mesh_FACES(mesh, frs))
    /\ UNCHANGED materials

import_mesh_SG(SgLists) ==
    /\ Running("mesh")
    /\ \E sgs \in SgLists : mesh_chunk("SG", sgs, mesh_SG(mesh, sgs))
    /\ UNCHANGED materials

\* lines 87-89: the materials named by the chunk exist afterwards
import_mesh_SFACE(SurfaceFaces) ==
    /\ Running("mesh")
    /\ \E sfs \in SurfaceFaces :
          LET r == mesh_SFACE(mesh, sfs)
              names == {sfs[i].name : i \in 1 .. Len(sfs)}
          IN  /\ mesh_chunk("SFACE", sfs, r)
              /\ materials' = IF ~r.ok THEN materials
                              ELSE [n \in DOMAIN materials \cup names |->
                                       IF n \in DOMAIN materials THEN materials[n]
                                       ELSE [tex |-> FALSE, surf |-> FALSE]]

import_mesh_VMAPS2(VmapLists) ==
    /\ Running("mesh")
    /\ \E es \in VmapLists :
          mesh_chunk("VMAPS2", es, mesh_VMAPS2(mesh, put_vmaps(es)))
    /\ UNCHANGED materials

import_mesh_MESHNAME ==
    /\ Running("mesh")
    /\ \E name \in {"mesh"} : mesh_chunk("MESHNAME", name, mesh_MESHNAME(mesh, name))
    /\ UNCHANGED materials

import_mesh_FLAGS ==
    /\ Running("mesh")
    /\ \E flags \in {1} : mesh_chunk("FLAGS", flags, mesh_FLAGS(mesh, flags))
    /\ UNCHANGED materials

import_mesh_OPTIONS ==
    /\ Running("mesh")
    /\ \E options \in {<<1, 2>>} : mesh_chunk("OPTIONS", options, mesh_OPTIONS(mesh, options))
    /\ UNCHANGED materials

\* lines 98-99 and 144-145
import_mesh_pass ==
    /\ Running("mesh")
    /\ \E cid \in {"VMREFS", "BBOX"} : mesh_chunk(cid, <<>>, mesh_pass(mesh))
    /\ UNCHANGED materials

import_mesh_unknown == unknown_chunk("mesh")

\* lines 150-151 and line 243
import_mesh_end ==
    /\ Running("mesh")
    /\ meshes' = Append(meshes, mesh)
    /\ mesh' = NewMesh
    /\ level' = "meshes"
    /\ UNCHANGED <<status, error, warnings, chunks_left, last_chunk, cx_bpy, bpy_obj,
                   arm, materials, created, null_skips>>

(***************************************************************************)
(* _import_bone, lines 154-223, and the rest of the BONES1 branch          *)
(***************************************************************************)
\* line 282-283: the next chunk of the BONES1 payload is a bone, whatever its tag
bones_next ==
    /\ Running("bones")
    /\ ReadLoop("_", <<>>)
    /\ level' = "bone_begin"
    /\ UNCHANGED <<status, error, warnings, cx_bpy, bpy_obj, meshes, mesh, arm,
                   materials, created, null_skips>>

\* lines 155-157
import_bone_version ==
    /\ Running("bone_begin")
    /\ \E c \in FirstChunks :
          /\ ReadNext(c.cid, c.data)
          /\ IF next_raises(c, "VERSION") # NoError
             THEN /\ status' = "failed" /\ error' = next_raises(c, "VERSION")
                  /\ UNCHANGED level
             ELSE IF ~version_supported(c.data, BONE_VERSION)
             THEN /\ status' = "failed" /\ error' = unsupported("BONE", c.data)
                  /\ UNCHANGED level
             ELSE /\ level' = "bone_def"
                  /\ UNCHANGED <<status, error>>
    /\ UNCHANGED <<warnings, cx_bpy, bpy_obj, meshes, mesh, arm, materials, created,
                   null_skips>>

\* mathutils: Identity, Translation(offset), Euler(rotate, 'ZXY') and the matrix
\* product, kept as the sequence of the factors
Identity == <<>>
Translation(offset) == <<<<"T", offset>>>>
EulerZXY(rotate) == <<<<"R", rotate>>>>

bone_matrix_parent_last(bonemat, parent, offset, rotate) ==
    Translation(offset) \o EulerZXY(rotate)
        \o (IF parent \in DOMAIN bonemat THEN bonemat[parent] ELSE Identity)

\* line 174
bone_matrix(bonemat, parent, offset, rotate) ==
    (IF parent \in DOMAIN bonemat THEN bonemat[parent] ELSE Identity)
        \o Translation(offset) \o EulerZXY(rotate)

\* lines 158-163: def_ = [name, parent, vmap]
import_bone_def(Defs) ==
    /\ Running("bone_def")
    /\ \E c \in {[cid |-> "DEF", data |-> d] : d \in Defs} \cup {[cid |-> "X", data |-> <<>>]} :
          /\ ReadNext(c.cid, c.data)
          /\ IF next_raises(c, "DEF") # NoError
             THEN /\ status' = "failed" /\ error' = next_raises(c, "DEF")
                  /\ UNCHANGED <<level, arm>>
             ELSE /\ level' = "bone_pose"
                  /\ arm' = [arm EXCEPT !.cur = c.data,
                                        !.reports = IF c.data.name # c.data.vmap
                                                    THEN @ + 1 ELSE @]
                  /\ UNCHANGED <<status, error>>
    /\ UNCHANGED <<warnings, cx_bpy, bpy_obj, meshes, mesh, materials, created,
                   null_skips>>

\* the bone bpy_armature.bones[name] resolves to: the first one of that name
bone_index(bones, name) == Min({i \in 1 .. Len(bones) : bones[i].name = name})

\* lines 164-181: pose = [offset, rotate, length]
import_bone_bind_pose(Poses) ==
    /\ Running("bone_pose")
    /\ \E c \in {[cid |-> "BIND_POSE", data |-> d] : d \in Poses}
                    \cup {[cid |-> "X", data |-> <<>>]} :
          /\ ReadNext(c.cid, c.data)
          /\ IF next_raises(c, "BIND_POSE") # NoError
             THEN /\ status' = "failed" /\ error' = next_raises(c, "BIND_POSE")
                  /\ UNCHANGED <<level, arm, created>>
             ELSE IF ~cx_bpy
             THEN /\ Fail("AttributeError", "", 0)         \* line 168
                  /\ UNCHANGED <<level, arm, created>>
             ELSE LET def_ == arm.cur
                      mat  == bone_matrix(arm.bonemat, def_.parent, c.data.offset,
                                          c.data.rotate)
                      bone == [name |-> def_.name, parent |-> def_.parent, head |-> mat,
                               renamed |-> def_.name \in bone_names,
                               xray |-> <<>>, group |-> 0]
                      bs   == Append(arm.bones, bone)
                  IN  /\ created' = [created EXCEPT !.bones = @ + 1]   \* line 170
                      /\ IF def_.parent # "" /\ def_.parent \notin bone_names
                         THEN /\ Fail("KeyError", def_.parent, 0)      \* line 172
                              /\ UNCHANGED <<level, arm>>
                         ELSE /\ level' = "bone"
                              /\ arm' = [arm EXCEPT
                                     !.bonemat = Put(@, def_.name, mat),
                                     !.bones = [bs EXCEPT ![bone_index(bs, def_.name)].xray =
                                                    Put(@, "length", c.data.length)]]
                              /\ UNCHANGED <<status, error>>
    /\ UNCHANGED <<warnings, cx_bpy, bpy_obj, meshes, mesh, materials, null_skips>>

\* lines 183-186
import_bone_DEF(Names) ==
    /\ Running("bone")
    /\ \E s2 \in Names :
          /\ ReadLoop("DEF", s2)
          /\ arm' = [arm EXCEPT !.reports = IF arm.cur.name # s2 THEN @ + 1 ELSE @]
    /\ UNCHANGED <<status, level, error, warnings, cx_bpy, bpy_obj, meshes, mesh,
                   materials, created, null_skips>>

BoneFieldTags == {"MATERIAL", "SHAPE", "IK_JOINT", "MASS_PARAMS", "IK_FLAGS",
                  "BREAK_PARAMS", "FRICTION"}

\* lines 187-221: xray.<fields> = the payload
import_bone_field(Values) ==
    /\ Running("bone")
    /\ \E cid \in BoneFieldTags, v \in Values :
          /\ ReadLoop(cid, v)
          /\ arm' = [arm EXCEPT !.bones[bone_index(arm.bones, arm.cur.name)].xray =
                                    Put(@, cid, v)]
    /\ UNCHANGED <<status, level, error, warnings, cx_bpy, bpy_obj, meshes, mesh,
                   materials, created, null_skips>>

import_bone_unknown == unknown_chunk("bone")

\* the bone's reader is exhausted: back in the loop of line 282
import_bone_end ==
    /\ Running("bone")
    /\ level' = "bones"
    /\ UNCHANGED <<status, error, warnings, chunks_left, last_chunk, cx_bpy, bpy_obj,
                   meshes, mesh, arm, materials, created, null_skips>>

\* lines 284-313
bones_end ==
    /\ Running("bones")
    /\ IF ~cx_bpy
       THEN Fail("AttributeError", "", 0) /\ UNCHANGED <<level, arm, meshes>>
       ELSE /\ level' = "main"
            /\ arm' = [arm EXCEPT !.tails = TRUE]
            /\ meshes' = [k \in 1 .. Len(meshes) |->
                             [meshes[k] EXCEPT !.modifiers = Append(@, "Armature")]]
            /\ UNCHANGED <<status, error>>
    /\ UNCHANGED <<warnings, chunks_left, last_chunk, cx_bpy, bpy_obj, mesh, materials,
                   created, null_skips>>

(***************************************************************************)
(* SpecObj: a whole .object file, its chunks delivered one at a time. The  *)
(* payloads are kept small; the tags, the version words and the nesting    *)
(* are what varies.                                                        *)
(***************************************************************************)
MaxChunks == 6

\* a face record: the three vertex indices interleaved with vmref indices
FaceRec(a, b, c) == <<a, 0, b, 0, c, 0>>

ObjCounts == {3}
ObjFaceLists == {<<FaceRec(0, 1, 2)>>}
ObjSgLists == {<<1>>}
ObjSurfaceFaces == {<<[name |-> "mat", faces |-> <<0>>]>>}
ObjVmapLists == {<<[name |-> 10, dim |-> 2, discon |-> FALSE, typ |-> 0,
                    vals |-> <<<<0, 0>>>>, vtx |-> <<0>>, fcs |-> <<>>]>>}
ObjSurfaces == {<<[name |-> "mat", texture |-> "tex"]>>}
ObjTransforms == {<<1, 2>>}
ObjValues == {1}
ObjPartitions == {<<[name |-> "group", bones |-> <<"b0">>]>>}
ObjDefs == {[name |-> "b0", parent |-> "", vmap |-> "b0"],
            [name |-> "b1", parent |-> "b0", vmap |-> "b0"]}
ObjPoses == {[offset |-> 1, rotate |-> 2, length |-> 3]}
ObjNames == {"b0"}

\* import_file has opened the file and made the root reader
InitObj ==
    /\ SklsIdle
    /\ OgfIdle
    /\ status = "running"
    /\ level = "root"
    /\ error = NoError
    /\ warnings = <<>>
    /\ chunks_left = MaxChunks
    /\ last_chunk = [n |-> 0, level |-> "", cid |-> "", data |-> <<>>]
    /\ cx_bpy \in BOOLEAN
    /\ bpy_obj = NoObject
    /\ meshes = <<>>
    /\ mesh = NewMesh
    /\ arm = NoArmature
    /\ materials = <<>>
    /\ created = [objects |-> 0, meshes |-> 0, armatures |-> 0, bones |-> 0]
    /\ null_skips = {}

NextObj ==
    \/ import_MAIN /\ UNCHANGED <<sklsVars, ogfVars>>
    \/ import_unknown /\ UNCHANGED <<sklsVars, ogfVars>>
    \/ import_end /\ UNCHANGED <<sklsVars, ogfVars>>
    \/ import_main_version /\ UNCHANGED <<sklsVars, ogfVars>>
    \/ main_MESHES /\ UNCHANGED <<sklsVars, ogfVars>>
    \/ meshes_next /\ UNCHANGED <<sklsVars, ogfVars>>
    \/ meshes_end /\ UNCHANGED <<sklsVars, ogfVars>>
    \/ main_SURFACES2(ObjSurfaces) /\ UNCHANGED <<sklsVars, ogfVars>>
    \/ main_BONES1 /\ UNCHANGED <<sklsVars, ogfVars>>
    \/ main_TRANSFORM(ObjTransforms) /\ UNCHANGED <<sklsVars, ogfVars>>
    \/ main_field(ObjValues) /\ UNCHANGED <<sklsVars, ogfVars>>
    \/ main_PARTITIONS1(ObjPartitions) /\ UNCHANGED <<sklsVars, ogfVars>>
    \/ main_unknown /\ UNCHANGED <<sklsVars, ogfVars>>
    \/ main_end /\ UNCHANGED <<sklsVars, ogfVars>>
    \/ import_mesh_version /\ UNCHANGED <<sklsVars, ogfVars>>
    \/ import_mesh_VERTS(ObjCounts) /\ UNCHANGED <<sklsVars, ogfVars>>
    \/ import_mesh_FACES(ObjFaceLists) /\ UNCHANGED <<sklsVars, ogfVars>>
    \/ import_mesh_SG(ObjSgLists) /\ UNCHANGED <<sklsVars, ogfVars>>
    \/ import_mesh_SFACE(ObjSurfaceFaces) /\ UNCHANGED <<sklsVars, ogfVars>>
    \/ import_mesh_VMAPS2(ObjVmapLists) /\ UNCHANGED <<sklsVars, ogfVars>>
    \/ import_mesh_MESHNAME /\ UNCHANGED <<sklsVars, ogfVars>>
    \/ import_mesh_FLAGS /\ UNCHANGED <<sklsVars, ogfVars>>
    \/ import_mesh_OPTIONS /\ UNCHANGED <<sklsVars, ogfVars>>
    \/ import_mesh_pass /\ UNCHANGED <<sklsVars, ogfVars>>
    \/ import_mesh_unknown /\ UNCHANGED <<sklsVars, ogfVars>>
    \/ import_mesh_end /\ UNCHANGED <<sklsVars, ogfVars>>
    \/ bones_next /\ UNCHANGED <<sklsVars, ogfVars>>
    \/ import_bone_version /\ UNCHANGED <<sklsVars, ogfVars>>
    \/ import_bone_def(ObjDefs) /\ UNCHANGED <<sklsVars, ogfVars>>
    \/ import_bone_bind_pose(ObjPoses) /\ UNCHANGED <<sklsVars, ogfVars>>
    \/ import_bone_DEF(ObjNames) /\ UNCHANGED <<sklsVars, ogfVars>>
    \/ import_bone_field(ObjValues) /\ UNCHANGED <<sklsVars, ogfVars>>
    \/ import_bone_unknown /\ UNCHANGED <<sklsVars, ogfVars>>
    \/ import_bone_end /\ UNCHANGED <<sklsVars, ogfVars>>
    \/ bones_end /\ UNCHANGED <<sklsVars, ogfVars>>

SpecObj == InitObj /\ [][NextObj]_vars

(***************************************************************************)
(* SpecFaces and SpecSG: one mesh, from the state _import_mesh is in after *)
(* line 45 (MAIN, its VERSION, MESHES, one mesh, its VERSION were read),   *)
(* with geometry in the payloads.                                          *)
(***************************************************************************)
MaxMeshChunks == 5

InitMesh ==
    /\ SklsIdle
    /\ OgfIdle
    /\ status = "running"
    /\ level = "mesh"
    /\ error = NoError
    /\ warnings = <<>>
    /\ chunks_left = MaxMeshChunks
    /\ last_chunk = [n |-> 5, level |-> "mesh_begin", cid |-> "VERSION",
                     data |-> MESH_VERSION]
    /\ cx_bpy = TRUE
    /\ bpy_obj = [NoObject EXCEPT !.exists = TRUE]
    /\ meshes = <<>>
    /\ mesh = NewMesh
    /\ arm = NoArmature
    /\ materials = <<>>
    /\ created = [objects |-> 2, meshes |-> 1, armatures |-> 0, bones |-> 0]
    /\ null_skips = {}

MeshCounts == {5}

FaceLists(Triples) ==
    {[i \in 1 .. Len(ts) |-> FaceRec(ts[i][1], ts[i][2], ts[i][3])] :
        ts \in SeqsUpTo(Triples, MaxFaceRecs)}

\* a face, the same vertices in another order, a neighbour, a degenerate one
FacesTriples == {<<0, 1, 2>>, <<1, 0, 2>>, <<2, 1, 3>>, <<0, 0, 1>>}

FacesFaceLists == FaceLists(FacesTriples)

FacesSgLists == {[i \in 1 .. n |-> 1] : n \in 1 .. MaxFaceRecs + 1}

FacesSurfaceFaces ==
    {<<[name |-> "a", faces |-> <<0, 1, 2>>]>>,
     <<[name |-> "a", faces |-> <<1>>], [name |-> "b", faces |-> <<0, 1>>]>>}

\* disconnected uv maps
FacesVmapLists ==
    {<<[name |-> 10, dim |-> 2, discon |-> TRUE, typ |-> 0,
        vals |-> <<<<1, 0>>, <<0, 1>>>>, vtx |-> <<0, 1>>, fcs |-> <<0, 1>>]>>,
     <<[name |-> 10, dim |-> 2, discon |-> TRUE, typ |-> 0,
        vals |-> <<<<1, 1>>, <<0, 0>>, <<1, 0>>>>, vtx |-> <<2, 1, 3>>, fcs |-> <<1, 2, 2>>]>>}

NextFaces ==
    \/ import_mesh_VERTS(MeshCounts) /\ UNCHANGED <<sklsVars, ogfVars>>
    \/ import_mesh_FACES(FacesFaceLists) /\ UNCHANGED <<sklsVars, ogfVars>>
    \/ import_mesh_SG(FacesSgLists) /\ UNCHANGED <<sklsVars, ogfVars>>
    \/ import_mesh_SFACE(FacesSurfaceFaces) /\ UNCHANGED <<sklsVars, ogfVars>>
    \/ import_mesh_VMAPS2(FacesVmapLists) /\ UNCHANGED <<sklsVars, ogfVars>>

SpecFaces == InitMesh /\ [][NextFaces]_vars

\* three faces around the edge of vertices 1 and 2; a repeated one is a duplicate
SgTriples == {<<0, 1, 2>>, <<2, 1, 3>>, <<1, 2, 4>>}

SgFaceLists == FaceLists(SgTriples)

SgIds == {1, 2}

\* an id for every face or for the first ones only, and one list that is too long
SgLists == SeqsUpTo(SgIds, MaxFaceRecs) \cup {[i \in 1 .. MaxFaceRecs + 1 |-> 1]}

NextSG ==
    \/ import_mesh_VERTS(MeshCounts) /\ UNCHANGED <<sklsVars, ogfVars>>
    \/ import_mesh_FACES(SgFaceLists) /\ UNCHANGED <<sklsVars, ogfVars>>
    \/ import_mesh_SG(SgLists) /\ UNCHANGED <<sklsVars, ogfVars>>

SpecSG == InitMesh /\ [][NextSG]_vars

(***************************************************************************)
(* SpecVmaps: the VMAPS2 chunks of one mesh, with weight maps, connected   *)
(* and disconnected, alone and one after the other.                        *)
(***************************************************************************)
VmapCounts == {2}

WeightCon(name, vals, vtx) ==
    [name |-> name, dim |-> 1, discon |-> FALSE, typ |-> 1, vals |-> vals, vtx |-> vtx,
     fcs |-> <<>>]
WeightDiscon(name, vals, vtx, fcs) ==
    [name |-> name, dim |-> 1, discon |-> TRUE, typ |-> 1, vals |-> vals, vtx |-> vtx,
     fcs |-> fcs]

WeightVmapLists ==
    { <<WeightCon(21, <<5, 6>>, <<1, 0>>)>>,
      <<WeightCon(21, <<5, 6>>, <<1, 1>>)>>,
      <<WeightCon(21, <<5>>, <<9>>)>>,
      <<WeightDiscon(20, <<3, 4>>, <<0, 1>>, <<0, 0>>)>>,
      <<WeightDiscon(20, <<3>>, <<9>>, <<9>>)>>,
      <<WeightDiscon(20, <<3, 4>>, <<0, 1>>, <<0, 0>>), WeightCon(21, <<5>>, <<1>>)>>,
      <<WeightCon(21, <<5>>, <<0>>), WeightDiscon(20, <<3>>, <<0>>, <<7>>),
        WeightCon(22, <<6>>, <<0>>)>> }

NextVmaps ==
    \/ import_mesh_VERTS(VmapCounts) /\ UNCHANGED <<sklsVars, ogfVars>>
    \/ import_mesh_VMAPS2(WeightVmapLists) /\ UNCHANGED <<sklsVars, ogfVars>>

SpecVmaps == InitMesh /\ [][NextVmaps]_vars

(***************************************************************************)
(* SpecBones: the BONES1 chunks of an object, from the state _import_main  *)
(* is in after line 229 (MAIN and its VERSION were read), with bones that  *)
(* name each other as parents and differ in their bind poses.              *)
(***************************************************************************)
MaxBoneChunks == 5

BoneDefs == {[name |-> "b0", parent |-> "", vmap |-> "b0"],
             [name |-> "b1", parent |-> "b0", vmap |-> "b1"],
             [name |-> "b2", parent |-> "b1", vmap |-> "b2"]}
BonePoses == {[offset |-> 1, rotate |-> 2, length |-> 3],
              [offset |-> 4, rotate |-> 5, length |-> 3]}

InitBones ==
    /\ SklsIdle
    /\ OgfIdle
    /\ status = "running"
    /\ level = "main"
    /\ error = NoError
    /\ warnings = <<>>
    /\ chunks_left = MaxBoneChunks
    /\ last_chunk = [n |-> 2, level |-> "main_begin", cid |-> "VERSION",
                     data |-> OBJECT_VERSION]
    /\ cx_bpy = TRUE
    /\ bpy_obj = [NoObject EXCEPT !.exists = TRUE]
    /\ meshes = <<>>
    /\ mesh = NewMesh
    /\ arm = NoArmature
    /\ materials = <<>>
    /\ created = [objects |-> 1, meshes |-> 0, armatures |-> 0, bones |-> 0]
    /\ null_skips = {}

NextBones ==
    \/ main_BONES1 /\ UNCHANGED <<sklsVars, ogfVars>>
    \/ bones_next /\ UNCHANGED <<sklsVars, ogfVars>>
    \/ import_bone_version /\ UNCHANGED <<sklsVars, ogfVars>>
    \/ import_bone_def(BoneDefs) /\ UNCHANGED <<sklsVars, ogfVars>>
    \/ import_bone_bind_pose(BonePoses) /\ UNCHANGED <<sklsVars, ogfVars>>
    \/ import_bone_field(ObjValues) /\ UNCHANGED <<sklsVars, ogfVars>>
    \/ import_bone_unknown /\ UNCHANGED <<sklsVars, ogfVars>>
    \/ import_bone_end /\ UNCHANGED <<sklsVars, ogfVars>>
    \/ bones_end /\ UNCHANGED <<sklsVars, ogfVars>>

SpecBones == InitBones /\ [][NextBones]_vars

(***************************************************************************)
(* Claims about the object decoder.                                        *)
(***************************************************************************)
\* a reader delivered a chunk in this step
ChunkRead == last_chunk'.n # last_chunk.n

\* the tags the dispatch loop of a level has a branch for
LevelTags(lv) ==
    IF lv = "root" THEN RootTags
    ELSE IF lv = "main" THEN MainTags
    ELSE IF lv = "mesh" THEN MeshTags
    ELSE IF lv = "bone" THEN BoneTags
    ELSE {}

DispatchLevels == {"root", "main", "mesh", "bone"}

\* what a recognized chunk visibly does when its branch has run
Processed ==
    LET cid == last_chunk'.cid
        data == last_chunk'.data
    IN  /\ level = "root" => level' = "main_begin"
        /\ level = "main" /\ cid = "MESHES" => level' = "meshes"
        /\ level = "main" /\ cid = "BONES1" => level' = "bones"
        /\ level = "main" /\ cid \in MainFieldTags /\ status' = "running"
              => cid \in DOMAIN bpy_obj'.fields /\ bpy_obj'.fields[cid] = data
        /\ level = "main" /\ cid = "TRANSFORM" /\ status' = "running"
              => bpy_obj'.matrix = Append(bpy_obj.matrix, data)
        /\ level = "main" /\ cid = "PARTITIONS1" /\ status' = "running"
              => Len(arm'.groups) = Len(arm.groups) + Len(data)
        /\ level = "main" /\ cid = "SURFACES2" /\ status' = "running" /\ cx_bpy
              => \A i \in 1 .. Len(data) :
                    data[i].name \in DOMAIN materials => materials'[data[i].name].surf
        /\ level = "mesh" /\ cid = "VERTS" => mesh'.nverts = mesh.nverts + data
        /\ level = "mesh" /\ cid = "FACES" /\ status' = "running"
              => Len(mesh'.faces) = Len(mesh.faces) + Len(data)
        /\ level = "mesh" /\ cid = "SG" /\ status' = "running"
              => Len(mesh'.modifiers) = Len(mesh.modifiers) + 1
        /\ level = "mesh" /\ cid = "SFACE" /\ status' = "running"
              => Len(mesh'.materials) = Len(mesh.materials) + Len(data)
        /\ level = "mesh" /\ cid = "VMAPS2" /\ status' = "running"
              => \A i \in 1 .. Len(data) : data[i].name \in mesh'.uvlayers
        /\ level = "mesh" /\ cid = "MESHNAME" => mesh'.name = data
        /\ level = "mesh" /\ cid = "FLAGS" => mesh'.flags = data
        /\ level = "mesh" /\ cid = "OPTIONS" => mesh'.options = data
        /\ level = "mesh" /\ cid \in {"VMREFS", "BBOX"} => mesh' = mesh /\ status' = "running"
        /\ level = "bone" /\ cid \in BoneFieldTags
              => LET b == bone_index(arm.bones, arm.cur.name)
                 IN  cid \in DOMAIN arm'.bones[b].xray /\ arm'.bones[b].xray[cid] = data
        /\ level = "bone" /\ cid = "DEF" => status' = "running" /\ level' = "bone"

\* C4: at the root, main, mesh and bone levels a chunk whose tag has no branch
\* only adds a warning naming the tag and the level: the decoder keeps running
\* at the same level with everything decoded so far untouched, so the chunks
\* after it are dispatched as they would have been without it; a chunk whose
\* tag has a branch is never reported as unknown and its branch runs when the
\* reader delivers it.
C4_UnknownTagSkipped ==
    [][ChunkRead /\ level \in DispatchLevels =>
          IF last_chunk'.cid \notin LevelTags(level)
          THEN /\ status' = "running"
               /\ error' = NoError
               /\ level' = level
               /\ warnings' = Append(warnings, <<last_chunk'.cid, level>>)
               /\ UNCHANGED <<cx_bpy, bpy_obj, meshes, mesh, arm, materials, created>>
          ELSE /\ warnings' = warnings
               /\ Processed]_vars

\* a mesh took VERTS, then an unknown chunk, then FACES
C4_Witness ==
    /\ status = "running"
    /\ level = "mesh"
    /\ warnings = <<<<"X", "mesh">>>>
    /\ mesh.nverts = 3
    /\ last_chunk.cid = "FACES"
    /\ Len(mesh.faces) = 1

\* the supported version word and the record name of a level where cr.nextf
\* reads the version
SupportedVersion(lv) ==
    IF lv = "main_begin" THEN OBJECT_VERSION
    ELSE IF lv = "mesh_begin" THEN MESH_VERSION
    ELSE BONE_VERSION

RecordName(lv) ==
    IF lv = "main_begin" THEN "OBJECT"
    ELSE IF lv = "mesh_begin" THEN "MESH"
    ELSE "BONE"

VersionLevels == {"main_begin", "mesh_begin", "bone_begin"}

\* C5: a version word other than the supported one (mesh 0x11, bone 0x2,
\* object 0x10) ends the decode with an unsupported-version error naming the
\* record and carrying the word read, with no datablock created and nothing
\* else changed; no step follows a failure, so no further chunk is read; and
\* an unsupported-version error only ever comes from a VERSION chunk read at
\* the head of a record with a word that is not the supported one.
C5_VersionChecked ==
    /\ [][ChunkRead /\ level \in VersionLevels /\ last_chunk'.cid = "VERSION"
            /\ last_chunk'.data # SupportedVersion(level)
          => /\ status' = "failed"
             /\ error' = [kind |-> "unsupported version", what |-> RecordName(level),
                          value |-> last_chunk'.data]
             /\ UNCHANGED <<level, warnings, bpy_obj, meshes, mesh, arm, materials,
                            created>>]_vars
    /\ [][status = "running"]_vars
    /\ [](error.kind = "unsupported version"
            => /\ status = "failed"
               /\ last_chunk.level \in VersionLevels
               /\ last_chunk.cid = "VERSION"
               /\ last_chunk.data # SupportedVersion(last_chunk.level)
               /\ error.value = last_chunk.data
               /\ error.what = RecordName(last_chunk.level))

\* a mesh with the object's version word: the object exists, no mesh does
C5_Witness ==
    /\ status = "failed"
    /\ error = [kind |-> "unsupported version", what |-> "MESH", value |-> OBJECT_VERSION]
    /\ created = [objects |-> 1, meshes |-> 0, armatures |-> 0, bones |-> 0]
    /\ meshes = <<>>

\* a mesh chunk with this tag was delivered and its branch ran to its end
MeshChunkDone(cid) ==
    ChunkRead /\ level = "mesh" /\ last_chunk'.cid = cid /\ status' = "running"

SameVerts(f, vs) == {f[1], f[2], f[3]} = {vs[1], vs[2], vs[3]}

Degenerate(vs) == vs[1] = vs[2] \/ vs[2] = vs[3] \/ vs[1] = vs[3]

\* slot j of fs would repeat a face of an earlier slot
Duplicate(fs, j, vs) == \E h \in 1 .. j - 1 : fs[h] # NoFace /\ SameVerts(fs[h], vs)

\* the face slots (0-based) a chunk refers to
SlotsOf(m, cid, data) ==
    IF cid = "SG" THEN 0 .. Len(data) - 1
    ELSE IF cid = "SFACE"
    THEN {data[i].faces[j] : <<i, j>> \in
             {p \in (1 .. Len(data)) \X (1 .. MaxFaceRecs + 1) : p[2] <= Len(data[p[1]].faces)}}
    ELSE IF cid = "VMAPS2"
    THEN {data[i].fcs[j] : <<i, j>> \in
             {p \in (1 .. Len(data)) \X (1 .. MaxFaceRecs + 1) :
                 data[p[1]].discon /\ p[2] <= Len(data[p[1]].fcs)}}
    ELSE {}

\* the uv set on the loops of slot fi (0-based)
UvOfSlot(m, fi) == [k \in {x \in DOMAIN m.uv : x[2] = fi} |-> m.uv[k]]

FaceIndexChunks == {"SG", "SFACE", "VMAPS2"}

\* C6: a FACES chunk of k records appends exactly k slots, in file order, to the
\* face-slot list; the slot of a record is null exactly when its three vertices
\* are not distinct or an earlier face has the same vertices, and holds the
\* record's vertices otherwise. A later SG, SFACE or disconnected-uv chunk whose
\* face indices are all within the list runs to its end whether or not it names
\* null slots; it leaves the slot list as it is, a null slot never gets a smooth
\* flag, a material or a uv, and a face the chunk does not name keeps its smooth
\* flag, material and uvs.
C6_NullFaceSlots ==
    /\ [][MeshChunkDone("FACES") =>
            LET frs == last_chunk'.data
                n   == Len(mesh.faces)
                fs  == mesh'.faces
            IN  /\ Len(fs) = n + Len(frs)
                /\ \A i \in 1 .. n : fs[i] = mesh.faces[i]
                /\ \A i \in 1 .. Len(frs) :
                      LET vs == <<frs[i][1], frs[i][3], frs[i][5]>>
                      IN  IF Degenerate(vs) \/ Duplicate(fs, n + i, vs)
                          THEN fs[n + i] = NoFace
                          ELSE fs[n + i] = vs]_vars
    /\ [][ChunkRead /\ level = "mesh" /\ last_chunk'.cid \in FaceIndexChunks =>
            LET slots == SlotsOf(mesh, last_chunk'.cid, last_chunk'.data)
            IN  /\ slots \subseteq 0 .. Len(mesh.faces) - 1 => status' = "running"
                /\ status' = "running" =>
                      /\ mesh'.faces = mesh.faces
                      /\ \A fi \in 0 .. Len(mesh.faces) - 1 :
                            /\ mesh.faces[fi + 1] = NoFace =>
                                  /\ ~mesh'.smooth[fi + 1]
                                  /\ mesh'.mat[fi + 1] = 0
                                  /\ UvOfSlot(mesh', fi) = <<>>
                            /\ fi \notin slots =>
                                  /\ mesh'.smooth[fi + 1] = mesh.smooth[fi + 1]
                                  /\ mesh'.mat[fi + 1] = mesh.mat[fi + 1]
                                  /\ UvOfSlot(mesh', fi) = UvOfSlot(mesh, fi)]_vars

\* a null slot between two faces, named by an SG, an SFACE and a disconnected
\* uv chunk that all ran to their end
C6_Witness ==
    /\ status = "running"
    /\ Len(mesh.faces) = 3
    /\ mesh.faces[1] # NoFace /\ mesh.faces[2] = NoFace /\ mesh.faces[3] # NoFace
    /\ null_skips = FaceIndexChunks
    /\ mesh.smooth = <<TRUE, FALSE, TRUE>>

\* the edges of the faces of a slot list
EdgesOf(fs) ==
    UNION {{{fs[i][1], fs[i][2]}, {fs[i][2], fs[i][3]}, {fs[i][3], fs[i][1]}} :
              i \in {j \in 1 .. Len(fs) : fs[j] # NoFace}}

\* the slots (1-based) of the faces on edge e that the id list sgs reaches
Incident(fs, sgs, e) ==
    {i \in 1 .. Len(fs) : i <= Len(sgs) /\ fs[i] # NoFace
                            /\ e \subseteq {fs[i][1], fs[i][2], fs[i][3]}}

\* C7: when an SG chunk has been processed, the edges it marked as seam, and
\* as not smooth, are exactly the edges with two incident non-null faces that
\* the chunk gave different smoothing-group ids, whatever the order of the faces
\* and however many faces meet at the edge; an edge whose incident faces all
\* got the same id is not marked by the chunk. Only edges are marked, seam and
\* not-smooth go together, and a mesh that saw no SG chunk has no seam.
C7_SeamIffIdsDiffer ==
    /\ [][MeshChunkDone("SG") =>
            LET sgs == last_chunk'.data
                differ(e) == \E i, j \in Incident(mesh.faces, sgs, e) : sgs[i] # sgs[j]
            IN  /\ \A e \in EdgesOf(mesh.faces) :
                      /\ e \in mesh'.seam <=> (e \in mesh.seam \/ differ(e))
                      /\ e \in mesh'.sharp <=> (e \in mesh.sharp \/ differ(e))
                /\ \A i \in 1 .. Len(mesh.faces) :
                      mesh'.smooth[i] = (mesh.smooth[i] \/
                                           (i <= Len(sgs) /\ mesh.faces[i] # NoFace))]_vars
    /\ [](status # "idle" /\ level = "mesh" =>
            /\ mesh.seam \subseteq EdgesOf(mesh.faces)
            /\ mesh.sharp = mesh.seam
            /\ (mesh.modifiers = <<>> => mesh.seam = {}))

\* three faces around the edge 1-2 with ids 1, 1, 2: that edge is a seam, the
\* edge 0-1 of the first face alone is not
C7_Witness ==
    /\ status = "running"
    /\ last_chunk.cid = "SG"
    /\ last_chunk.data = <<1, 1, 2>>
    /\ Len(mesh.faces) = 3
    /\ \A i \in 1 .. 3 : mesh.faces[i] # NoFace /\ {1, 2} \subseteq {mesh.faces[i][1], mesh.faces[i][2], mesh.faces[i][3]}
    /\ {1, 2} \in mesh.seam
    /\ {0, 1} \notin mesh.seam
    /\ Len(mesh.modifiers) = 1

\* a BONES1 chunk begins; a bone's DEF and BIND_POSE were read and the bone was
\* made
BonesChunkBegins == level = "main" /\ level' = "bones"
BoneDecoded == level = "bone_pose" /\ level' = "bone"

(* C14: within one BONES chunk, with bones decoded in file order and every
   parent decoded before its children, each bone's stored bind transform is the
   stored bind transform of the bone named as its parent, composed with
   Translation(offset) and then EulerZXY(rotation) of the bone itself, in that
   order; a bone with an empty parent name uses identity as the incoming
   transform; the name-to-transform table starts empty for each BONES chunk and
   gains exactly one entry per decoded bone (bone names being unique), no other
   step touching it. *)
C14_BindTransform ==
    [][ LET table == arm.bonemat
            after == arm'.bonemat
            def_  == arm.cur
            pose  == last_chunk'.data
        IN  IF BonesChunkBegins THEN after = <<>>
            ELSE IF BoneDecoded
            THEN (/\ def_.name \notin DOMAIN table
                  /\ def_.parent = "" \/ def_.parent \in DOMAIN table)
                 => /\ DOMAIN after = DOMAIN table \cup {def_.name}
                    /\ Cardinality(DOMAIN after) = Cardinality(DOMAIN table) + 1
                    /\ \A k \in DOMAIN table : after[k] = table[k]
                    /\ after[def_.name] =
                          (IF def_.parent = "" THEN <<>> ELSE table[def_.parent])
                              \o <<<<"T", pose.offset>>, <<"R", pose.rotate>>>>
                    /\ arm'.bones[Len(arm'.bones)].head = after[def_.name]
            ELSE after = table ]_vars

\* the second BONES1 chunk of an object whose first one held a bone: a root
\* and, after it, its child with another bind pose are in the table, alone
C14_Witness ==
    /\ status = "running"
    /\ level = "bone"
    /\ Len(arm.bones) = 3
    /\ DOMAIN arm.bonemat = {"b0", "b1"}
    /\ arm.bonemat["b0"] = <<<<"T", 4>>, <<"R", 5>>>>
    /\ arm.bonemat["b1"] = <<<<"T", 4>>, <<"R", 5>>, <<"T", 1>>, <<"R", 2>>>>

\* a chain of three bones in one chunk
C14_ChainReached ==
    /\ DOMAIN arm.bonemat = {"b0", "b1", "b2"}
    /\ arm.bonemat["b2"] = <<<<"T", 1>>, <<"R", 2>>, <<"T", 4>>, <<"R", 5>>,
                             <<"T", 1>>, <<"R", 2>>>>

\* a VMAPS2 chunk of weight maps was delivered, every vertex a connected map
\* lists being a vertex of the mesh
WeightVmapsRead ==
    /\ ChunkRead
    /\ level = "mesh"
    /\ last_chunk'.cid = "VMAPS2"
    /\ \A j \in 1 .. Len(last_chunk'.data) :
          LET e == last_chunk'.data[j]
          IN  /\ e.typ = 1
              /\ ~e.discon => \A i \in 1 .. Len(e.vtx) : e.vtx[i] < mesh.nverts

\* the (vertex, group) pairs the connected maps among es assign, the first map
\* of es getting the group g0, and the weight each pair ends with
AssignedKeys(es, g0) ==
    UNION { {<<es[j].vtx[i], g0 + j - 1>> : i \in 1 .. Len(es[j].vtx)} :
            j \in {x \in 1 .. Len(es) : ~es[x].discon} }

WeightAfter(es, g0, k) ==
    LET e == es[k[2] - g0 + 1]
    IN  e.vals[Max({i \in 1 .. Len(e.vtx) : e.vtx[i] = k[1]})]

(* C15: processing a weight vmap entry (type 1) marked disconnected does not
   fail and leaves every vertex's weight mapping unchanged, while still
   consuming the entry's sz weights, sz vertex indices and sz face indices, so
   that the next entry is read from the right cursor position; a connected
   weight vmap entry assigns each listed weight to its listed vertex in the
   group newly made for the entry. Stated of every VMAPS2 chunk of weight maps:
   the branch ends without failure, one group per entry was made, in order and
   by name, and the weights changed are those the connected entries list. *)
C15_DisconnectedWeights ==
    [][ WeightVmapsRead =>
          LET es   == last_chunk'.data
              g0   == Len(mesh.groups)
              keys == AssignedKeys(es, g0)
          IN  /\ status' = "running"
              /\ mesh'.groups = mesh.groups \o [j \in 1 .. Len(es) |-> es[j].name]
              /\ DOMAIN mesh'.weights = DOMAIN mesh.weights \cup keys
              /\ \A k \in DOMAIN mesh'.weights :
                    mesh'.weights[k] = IF k \in keys THEN WeightAfter(es, g0, k)
                                       ELSE mesh.weights[k] ]_vars

\* a chunk with a connected map, a disconnected one whose face index is no face
\* of the mesh, and a connected one after it was read: vertex 0 has its weights
\* in the first and the third group and none in the second
C15_Witness ==
    /\ status = "running"
    /\ last_chunk.cid = "VMAPS2"
    /\ Len(last_chunk.data) = 3
    /\ last_chunk.data[2].discon
    /\ mesh.groups = <<21, 20, 22>>
    /\ DOMAIN mesh.weights = {<<0, 0>>, <<0, 2>>}
    /\ mesh.weights[<<0, 0>>] = 5
    /\ mesh.weights[<<0, 2>>] = 6

\* a chunk of one disconnected map was read by a mesh that had weights
C15_DisconnectedAloneReached ==
    /\ status = "running"
    /\ last_chunk.cid = "VMAPS2"
    /\ Len(last_chunk.data) = 1
    /\ last_chunk.data[1].discon
    /\ last_chunk.data[1].vtx = <<9>>
    /\ DOMAIN mesh.weights # {}

\* the step is a run of skls_animations_index_changed, or no step at all
HandlerRun == last_call'.op = "index_changed"

(* C16: the selection-changed handler is a no-op when no container is open or
   when the selected clip's name equals animations_prev_name: it returns without
   moving the container cursor, without changing animations_prev_name or the
   index, and without removing, importing or assigning any action;
   animations_prev_name is set only by a run that actually imported the selected
   clip, and then to that clip's name. *)
C16_HandlerNoOp ==
    [][ /\ (HandlerRun /\ (~skls_open \/ last_call'.name = prev_name))
           => UNCHANGED <<skls_open, pr_data, pr_offs, animations, prev_name, actions,
                          anim_data, motions, decoded>>
        /\ prev_name' # prev_name
           => /\ HandlerRun
              /\ prev_name' = last_call'.name
              /\ decoded'.name = prev_name'
              /\ decoded'.cursor_was = pr_offs
              /\ decoded'.motion.ok
              /\ pr_offs' = decoded'.motion.offs
              /\ prev_name' \in actions'
              /\ prev_name' \in motions' ]_vars

\* a clip was imported, the file opened again and the same clip selected: the
\* handler returned at once, the cursor still where indexing left it
C16_Witness ==
    /\ skls_open
    /\ last_call.op = "index_changed"
    /\ last_call.name = prev_name
    /\ prev_name \in DOMAIN animations
    /\ decoded = NoDecode
    /\ pr_offs = Len(pr_data)

\* the handler ran without a container
C16_NoFileReached ==
    /\ ~skls_open
    /\ last_call.op = "index_changed"

\* a selected clip that bpy.data.actions already held was assigned, not imported:
\* animations_prev_name is not its name
C16_NotImportedReached ==
    /\ skls_open
    /\ last_call.op = "index_changed"
    /\ anim_data = AnimData(last_call.name)
    /\ prev_name # last_call.name
    /\ decoded = NoDecode

====
